---- MODULE Spec2Model ----
(***************************************************************************)
(* bluesteel.graphics: dispatch by chart kind, the chart drawers, the      *)
(* figure formatter and the image buffer, as a state machine over the      *)
(* plotting library's figure registry.                                     *)
(*                                                                         *)
(* Python values: None is <<>>, any other value v is <<v>>.  A **kwargs    *)
(* dictionary is a function from the names given to such values.  Numbers  *)
(* are integers; an axis carries a denominator (xden, yden) so that the    *)
(* fractional positions of bar charts stay exact.  Text that the code      *)
(* scans (title, source) is a sequence of one-character strings; text that *)
(* the code only builds (tick labels) is a string.                         *)
(***************************************************************************)
EXTENDS Integers, Sequences, FiniteSets, TLC

VARIABLES
    nfig,   \* number of figures the plotting library has created so far
    gcf,    \* the plotting library's current figure (0: none)
    figs,   \* the figures the caller still references, by figure number
    ret,    \* what the last call returned or raised
    held,   \* an earlier result the caller kept (None: nothing kept)
    disk    \* the file system: the directories made and the files written

vars == <<nfig, gcf, figs, ret, held, disk>>

\* ------------------------------------------------------------------ bounds
MaxPoints == 7
MaxCols == 2
MaxCalls == 3

\* ------------------------------------------------------------ Python values
None == <<>>
Some(v) == <<v>>
TruthyNum(x) == x # None /\ x[1] # 0
TruthyBool(x) == x # None /\ x[1]
TruthySeq(x) == x # None /\ x[1] # <<>>

NoArgs == [n \in {} |-> None]
Arg(kw, name, default) == IF name \in DOMAIN kw THEN kw[name] ELSE default
Rest(kw, names) == [n \in (DOMAIN kw) \ names |-> kw[n]]
With(kw, name, v) == [n \in (DOMAIN kw) \cup {name} |-> IF n = name THEN v ELSE kw[n]]

\* ------------------------------------------------------------ number helpers
Abs(i) == IF i < 0 THEN -i ELSE i
Min2(a, b) == IF a < b THEN a ELSE b
Max2(a, b) == IF a > b THEN a ELSE b
RECURSIVE SeqMin(_)
SeqMin(s) == IF Len(s) = 1 THEN s[1] ELSE Min2(s[1], SeqMin(Tail(s)))
RECURSIVE SeqMax(_)
SeqMax(s) == IF Len(s) = 1 THEN s[1] ELSE Max2(s[1], SeqMax(Tail(s)))
RECURSIVE SeqSum(_)
SeqSum(s) == IF s = <<>> THEN 0 ELSE s[1] + SeqSum(Tail(s))
FloorDiv(a, b) == a \div b
CeilDiv(a, b) == -((-a) \div b)

\* ---------------------------------------------------------- number formatting
Pad3(r) == IF r < 10 THEN "00" \o ToString(r)
           ELSE IF r < 100 THEN "0" \o ToString(r) ELSE ToString(r)
RECURSIVE Grouped(_)
Grouped(n) == IF n < 1000 THEN ToString(n)
              ELSE Grouped(n \div 1000) \o "," \o Pad3(n % 1000)
\* '{:,.0f}'.format(i) for an integral i
FmtComma0(i) == IF i < 0 THEN "-" \o Grouped(-i) ELSE Grouped(i)
\* the decimals of r/1000 as Python prints a float: no trailing zeros, at least one digit
Frac(r) == IF r % 100 = 0 THEN ToString(r \div 100)
           ELSE IF r % 10 = 0 THEN (IF r < 100 THEN "0" ELSE "") \o ToString(r \div 10)
           ELSE Pad3(r)
\* f"{i / 1000:,}" for an integral i
FmtThousandsFloat(i) == (IF i < 0 THEN "-" ELSE "") \o Grouped(Abs(i) \div 1000)
                           \o "." \o Frac(Abs(i) % 1000)
\* f"{i / 1000:,.0f}" for an integral i that is a multiple of 1000
FmtThousands0(i) == FmtComma0(i \div 1000)
\* str(int(i))
FmtInt(i) == ToString(i)

\* ------------------------------------------------------------------ the data
\* A DataFrame: an index, the columns' values aligned to it, the columns' names,
\* the name of the index and the type of the index's elements ("int64" for the
\* index read_csv makes of whole numbers, "int" for an index of Python ints).
MkData(n, c, base, scale, i0) ==
    [index |-> [j \in 1..n |-> i0 + j - 1],
     cols  |-> [k \in 1..c |-> [j \in 1..n |-> base + scale * (j + k - 2)]],
     names |-> [k \in 1..c |-> "s" \o ToString(k)],
     iname |-> Some("year"), itype |-> "int64"]
NRows(data) == Len(data.index)
NCols(data) == Len(data.cols)
Row(data, j) == [k \in 1..NCols(data) |-> data.cols[k][j]]
AllValues(data) == {data.cols[k][j] : k \in 1..NCols(data), j \in 1..NRows(data)}
SetMin(S) == CHOOSE x \in S : \A y \in S : x <= y
SetMax(S) == CHOOSE x \in S : \A y \in S : x >= y
\* data.cumsum(axis='columns') at row j, through column k
CumSum(data, j, k) == SeqSum(SubSeq(Row(data, j), 1, k))
\* a cumulative sum that is not shifted by a column
DataBottomsUnshifted(data, j, k) == CumSum(data, j, k)
\* data.cumsum(axis=1).shift(1, axis=1).fillna(0) at row j, column k
DataBottoms(data, j, k) == IF k = 1 THEN 0 ELSE CumSum(data, j, k - 1)

\* ------------------------------------------------- the plotting library's axes
\* View limits after autoscaling to the data range lo..hi: a margin on each side,
\* except on the side where a bar's base at 0 bounds the data (sticky).
Margin(lo, hi) == IF hi = lo THEN 1 ELSE CeilDiv(hi - lo, 20)
AutoLim(lo, hi) == <<lo - Margin(lo, hi), hi + Margin(lo, hi)>>
\* an autoscale that never goes below 0
AutoLimFloor(lo, hi) == <<0, IF hi <= 0 THEN 1 ELSE hi + Margin(Min2(lo, 0), hi)>>
AutoLimSticky(lo, hi) ==
    LET l == Min2(lo, 0)
        h == Max2(hi, 0)
    IN  <<IF l = 0 THEN 0 ELSE l - Margin(l, h), IF h = 0 THEN 0 ELSE h + Margin(l, h)>>
\* set_xlim / set_ylim: a bound given as None keeps the current one; two equal
\* bounds are moved apart (the library widens them by 5 percent, here by one unit)
SetLim(cur, lo, hi) ==
    LET l == IF lo = None THEN cur[1] ELSE lo[1]
        h == IF hi = None THEN cur[2] ELSE hi[1]
    IN  IF l = h THEN <<l - 1, h + 1>> ELSE <<l, h>>
\* The automatic tick locator: multiples of the smallest step of 1, 2, 5 x 10^k
\* that puts at most nine intervals across the view, edge ticks included.
NiceSteps == {m * (10 ^ k) : m \in {1, 2, 5}, k \in 0..7}
TickStep(lim) == SetMin({s \in NiceSteps : lim[2] - lim[1] <= 9 * s})
AutoTicks(lim) ==
    LET s  == TickStep(lim)
        k1 == FloorDiv(lim[1], s)
        k2 == CeilDiv(lim[2], s)
    IN  [p \in 1..(k2 - k1 + 1) |-> (k1 + p - 1) * s]
\* ax.get_xticks() / ax.get_yticks(): the fixed locations when some were set
GetTicks(lim, locs) == IF locs = None THEN AutoTicks(lim) ELSE locs[1]
\* the text of the first tick label is empty until labels are set
FirstLabelEmpty(labels) == labels = None \/ labels[1] = <<>> \/ labels[1][1] = ""

\* a figure with one empty axes
NewFigure ==
    [naxes |-> 1, drawn |-> <<>>,
     xden |-> 1, yden |-> 1, xlim |-> <<0, 1>>, ylim |-> <<0, 1>>,
     xlocs |-> None, ylocs |-> None, xlabels |-> None, ylabels |-> None,
     hidden |-> {}, title |-> <<>>, xlabel |-> None, ylabel |-> None,
     texts |-> <<>>, textsize |-> None, bandat |-> <<>>, footer |-> <<>>, margin |-> FALSE,
     left |-> TRUE, bottom |-> TRUE, grid |-> FALSE, rot |-> None,
     legend |-> FALSE, logo |-> FALSE, props |-> {}]
\* a plt.subplots() that hands out the current figure when there is one
SubplotsCurrent == IF gcf \in DOMAIN figs THEN figs[gcf] ELSE NewFigure
\* plt.subplots(): a new figure with one empty axes, made the current figure
Subplots == NewFigure

\* what a drawing or formatting routine hands back: the error raised ("" when
\* none), the figure, and the lines printed
Done(fig, out) == [err |-> "", fig |-> fig, out |-> out]
Raise(e, fig, out) == [err |-> e, fig |-> fig, out |-> out]

\* ------------------------------------------------- title and source rewriting
Digits == {"0", "1", "2", "3", "4", "5", "6", "7", "8", "9"}
EnDash == "EN DASH"
LineBreak == "LF"
IsYear(s, i) == i + 3 <= Len(s) /\ \A k \in i..(i + 3) : s[k] \in Digits
\* (\d{4})-(\d{4}) matches at position i
RangeAt(s, i) == IsYear(s, i) /\ i + 4 <= Len(s) /\ s[i + 4] = "-" /\ IsYear(s, i + 5)
\* re.sub(r'(\d{4})-(\d{4})', '\\1\N{EN DASH}\\2', s): the matches are taken left to
\* right and do not overlap
RECURSIVE SubDash(_, _)
SubDash(s, i) ==
    IF i > Len(s) THEN <<>>
    ELSE IF RangeAt(s, i)
         THEN SubSeq(s, i, i + 3) \o <<EnDash>> \o SubSeq(s, i + 5, i + 8) \o SubDash(s, i + 9)
         ELSE <<s[i]>> \o SubDash(s, i + 1)
\* s.replace('\\n', '\n')
RECURSIVE ReplaceNewline(_, _)
ReplaceNewline(s, i) ==
    IF i > Len(s) THEN <<>>
    ELSE IF i < Len(s) /\ s[i] = "\\" /\ s[i + 1] = "n"
         THEN <<LineBreak>> \o ReplaceNewline(s, i + 2)
         ELSE <<s[i]>> \o ReplaceNewline(s, i + 1)
FormatText(s) == ReplaceNewline(SubDash(s, 1), 1)
DefaultFooter == <<"Produced with Bluesteel Graphics">>

\* ------------------------------------------------------- the figure formatter
\* The labels format_figure derives from the tick values
ThousandsLabels(ticks, label_thousands) ==
    LET cut == IF \E p \in 1..Len(ticks) : ticks[p] % 1000 # 0
               THEN [p \in 1..Len(ticks) |->
                        IF ticks[p] = 0 THEN "" ELSE FmtThousandsFloat(ticks[p])]
               ELSE [p \in 1..Len(ticks) |->
                        IF ticks[p] = 0 THEN "" ELSE FmtThousands0(ticks[p])]
    IN  IF TruthyBool(label_thousands)
        THEN [p \in 1..Len(cut) |-> IF cut[p] # "" THEN cut[p] \o "K" ELSE ""]
        ELSE cut
DeriveYLabels(ticks, label_thousands) ==
    IF SeqMax(ticks) >= 1000000
    THEN ThousandsLabels(ticks, label_thousands)
    ELSE [p \in 1..Len(ticks) |-> FmtComma0(ticks[p])]

\* an axes that takes fake_param as a property
AxesPropsLax == {"xlim", "ylim", "xlabel", "ylabel", "xticklabels", "yticklabels", "alpha",
                 "fake_param"}
\* the names Axes.set() has a setter for (those the model gives an effect, and one
\* with none)
AxesProps == {"xlim", "ylim", "xlabel", "ylabel", "xticklabels", "yticklabels", "alpha"}
\* ax.set(**kwargs) for kwargs whose names all have a setter
AxesSet(fig, kw) ==
    LET has(n) == n \in DOMAIN kw
    IN  [fig EXCEPT
           !.xlim = IF has("xlim") THEN SetLim(@, kw["xlim"][1][1], kw["xlim"][1][2]) ELSE @,
           !.ylim = IF has("ylim") THEN SetLim(@, kw["ylim"][1][1], kw["ylim"][1][2]) ELSE @,
           !.xlabel = IF has("xlabel") THEN kw["xlabel"] ELSE @,
           !.ylabel = IF has("ylabel") THEN kw["ylabel"] ELSE @,
           !.xlabels = IF has("xticklabels") THEN kw["xticklabels"] ELSE @,
           !.ylabels = IF has("yticklabels") THEN kw["yticklabels"] ELSE @,
           !.props = @ \cup ((DOMAIN kw) \ {"xlim", "ylim", "xlabel", "ylabel",
                                           "xticklabels", "yticklabels"})]

FormatParams == {"spines", "grid", "label_thousands", "xlabel_off", "ylabel_off",
                 "rot", "title", "source"}
\* the advisory about the number of x-axis labels
XTickAdvice(data, xticks) ==
    IF Len(xticks) < NRows(data) THEN <<"too few x-axis labels">>
    ELSE IF Len(xticks) > NRows(data) THEN <<"too many x-axis labels">>
    ELSE <<>>

\* a formatter that defaults the x limits only
LimitDefaultsXOnly(data, kw) ==
    IF "xlim" \notin DOMAIN kw
    THEN With(kw, "xlim", Some(<<Some(SeqMin(data.index)), Some(SeqMax(data.index))>>))
    ELSE kw
\* format_figure's default limits: ylim (0, None) and xlim the range of the index,
\* each when kwargs holds no such name
LimitDefaults(data, kw) ==
    LET k3 == IF "ylim" \notin DOMAIN kw
              THEN With(kw, "ylim", Some(<<Some(0), None>>)) ELSE kw
    IN  IF "xlim" \notin DOMAIN k3
        THEN With(k3, "xlim", Some(<<Some(SeqMin(data.index)), Some(SeqMax(data.index))>>))
        ELSE k3

FormatFigure(data, fig, kw, out) ==
    LET spines == Arg(kw, "spines", Some(TRUE))
        grid   == Arg(kw, "grid", Some(TRUE))
        label_thousands == Arg(kw, "label_thousands", Some(TRUE))
        xlabel_off == Arg(kw, "xlabel_off", Some(FALSE))
        ylabel_off == Arg(kw, "ylabel_off", Some(FALSE))
        rot    == Arg(kw, "rot", None)
        title  == Arg(kw, "title", None)
        source == Arg(kw, "source", None)
        k0 == Rest(kw, FormatParams)
        k1 == IF ~TruthyBool(xlabel_off) /\ "xlabel" \notin DOMAIN k0
              THEN With(k0, "xlabel", data.iname) ELSE k0
        k2 == IF ~TruthyBool(ylabel_off) /\ "ylabel" \notin DOMAIN k1
              THEN With(k1, "ylabel", Some(data.names[1])) ELSE k1
        k4 == LimitDefaults(data, k2)
        f1 == IF "yticks" \in DOMAIN k4 THEN [fig EXCEPT !.ylocs = k4["yticks"]] ELSE fig
        k5 == Rest(k4, {"yticks"})
        f2 == IF "xticks" \in DOMAIN k5 THEN [f1 EXCEPT !.xlabels = k5["xticks"]] ELSE f1
        o2 == IF "xticks" \in DOMAIN k5 THEN out \o XTickAdvice(data, k5["xticks"][1]) ELSE out
        k6 == Rest(k5, {"xticks"})
        f3 == IF FirstLabelEmpty(f2.ylabels)
              THEN [f2 EXCEPT !.ylabels =
                       Some(DeriveYLabels(GetTicks(f2.ylim, f2.ylocs), label_thousands))]
              ELSE f2
        f4 == IF TruthyBool(grid) THEN [f3 EXCEPT !.grid = TRUE] ELSE f3
        k7 == [n \in {m \in DOMAIN k6 : k6[m] # None} |-> k6[n]]
        f5 == AxesSet(f4, k7)
        f6 == IF TruthyNum(rot) THEN [f5 EXCEPT !.rot = rot] ELSE f5
        f7 == IF TruthySeq(title) THEN [f6 EXCEPT !.title = FormatText(title[1])] ELSE f6
        f8 == IF ~TruthyBool(spines) THEN [f7 EXCEPT !.left = FALSE, !.bottom = FALSE] ELSE f7
        f9 == [f8 EXCEPT !.footer = IF TruthySeq(source) THEN FormatText(source[1])
                                    ELSE DefaultFooter,
                         !.margin = TRUE, !.logo = TRUE]
    IN  IF ("yticks" \in DOMAIN k4 /\ k4["yticks"] = None)
           \/ ("xticks" \in DOMAIN k5 /\ k5["xticks"] = None)
        THEN Raise("TypeError", fig, out)
        ELSE IF ~(DOMAIN k7 \subseteq AxesProps)
        THEN Raise("AttributeError", f4, o2)
        ELSE Done(f9, o2)

\* format_figure(data, fig, <given>, **kwargs): a name given twice is a TypeError
CallFormatFigure(data, fig, given, kw, out) ==
    IF (DOMAIN given) \cap (DOMAIN kw) # {}
    THEN Raise("TypeError", fig, out)
    ELSE FormatFigure(data, fig, given @@ kw, out)

\* --------------------------------------------------------- the chart drawers
\* the default color selection: one color per column when several are plotted
PickColors(data, color) ==
    IF NCols(data) > 1 /\ color = Some(<<0>>)
    THEN [k \in 1..NCols(data) |-> k - 1]
    ELSE color[1]

\* a fix_xticks_for_short_series that counts six points as few
FixXticksUpToSix(data, fig) ==
    IF NRows(data) <= 6 THEN [fig EXCEPT !.xlocs = Some(data.index)] ELSE fig
\* no ticks fixed for any series
FixXticksNever(data, fig) == fig
\* fix_xticks_for_short_series
FixXticksForShortSeries(data, fig) ==
    IF NRows(data) < 6 THEN [fig EXCEPT !.xlocs = Some(data.index)] ELSE fig

\* the text of an index value used as a tick label
LabelText(v) == ToString(v)
LabelIsDigits(v) == v >= 0
IndexLabels(data) == [j \in 1..NRows(data) |-> LabelText(data.index[j])]

\* fix_xaxis_vertical_bar: hides every other year label when there are many, else
\* prints the advisory once for every label at which the length test holds
HbarAdvice(labels) ==
    LET long(j) == \/ Len(labels[j]) > 9
                   \/ SeqSum([i \in 1..j |-> Len(labels[i])]) > 49
                   \/ (Len(labels[j]) > 6 /\ Len(labels) > 7)
        RECURSIVE lines(_)
        lines(j) == IF j > Len(labels) THEN <<>>
                    ELSE (IF long(j) THEN <<"consider horizontal_bar">> ELSE <<>>)
                         \o lines(j + 1)
    IN  lines(1)
FixXaxisVerticalBar(data, fig, out) ==
    LET labels == fig.xlabels[1]
    IN  IF Len(labels[1]) = 4 /\ LabelIsDigits(data.index[1])
        THEN Done(IF Len(labels) > 12
                  THEN [fig EXCEPT !.hidden = {j \in 1..Len(labels) : j % 2 = 0}]
                  ELSE fig, out)
        ELSE Done(fig, out \o HbarAdvice(labels))

DrawLineChart(data, kw) ==
    LET lw == Arg(kw, "lw", Some(2))
        label_lines == Arg(kw, "label_lines", Some(FALSE))
        color == PickColors(data, Arg(kw, "color", Some(<<0>>)))
        kwargs == Rest(kw, {"lw", "label_lines", "color"})
        f0 == Subplots
        f1 == [f0 EXCEPT
                 !.drawn = [k \in 1..NCols(data) |->
                              [art |-> "line", col |-> k, color |-> color[k], lw |-> lw]],
                 !.xlim = AutoLim(SeqMin(data.index), SeqMax(data.index)),
                 !.ylim = AutoLim(SetMin(AllValues(data)), SetMax(AllValues(data)))]
        f2 == IF TruthyBool(label_lines)
              THEN [f1 EXCEPT !.texts = [k \in 1..NCols(data) |->
                       data.names[k] \o ": " \o FmtComma0(data.cols[k][NRows(data)])]]
              ELSE f1
    IN  IF Len(color) < NCols(data) THEN Raise("IndexError", f0, <<>>)
        ELSE FormatFigure(data, FixXticksForShortSeries(data, f2), kwargs, <<>>)

DrawFilledLineChart(data, kw) ==
    LET label_area == Arg(kw, "label_area", Some(FALSE))
        kwargs == Rest(kw, {"label_area"})
        f0 == Subplots
        tops == {CumSum(data, j, k) : j \in 1..NRows(data), k \in 1..NCols(data)}
        f1 == [f0 EXCEPT
                 !.drawn = [k \in 1..NCols(data) |-> [art |-> "area", col |-> k]],
                 !.xlim = AutoLim(SeqMin(data.index), SeqMax(data.index)),
                 !.ylim = AutoLim(SetMin(tops \cup {0}), SetMax(tops \cup {0}))]
        f2 == FixXticksForShortSeries(data, f1)
        twice == f2.xlim[1] + f2.xlim[2]
        at == {j \in 1..NRows(data) : 2 * data.index[j] = twice}
        row == CHOOSE j \in at : TRUE
        midvals == [k \in 1..(NCols(data) + 1) |-> IF k = 1 THEN 0 ELSE CumSum(data, row, k - 1)]
        f3 == [f2 EXCEPT !.texts = data.names,
                         !.bandat = [k \in 1..NCols(data) |->
                                       [x2 |-> twice, y2 |-> midvals[k] + midvals[k + 1]]]]
    IN  IF TruthyBool(label_area)
        THEN IF at = {} THEN Raise("KeyError", f2, <<>>)
             ELSE FormatFigure(data, f3, kwargs, <<>>)
        ELSE FormatFigure(data, f2, kwargs, <<>>)

DrawScatterPlot(data, kw) ==
    LET kwargs == Rest(kw, {"xmin", "xmax"})
        f0 == Subplots
        f1 == [f0 EXCEPT
                 !.drawn = [k \in 1..NCols(data) |-> [art |-> "scatter", col |-> k]],
                 !.legend = NCols(data) > 1,
                 !.xlim = AutoLim(SeqMin(data.index), SeqMax(data.index)),
                 !.ylim = AutoLim(SetMin(AllValues(data)), SetMax(AllValues(data)))]
        given == ("xlim" :> Some(<<Some(f1.xlim[1]), Some(f1.xlim[2])>>))
                 @@ ("ylim" :> Some(<<Some(f1.ylim[1]), Some(f1.ylim[2])>>))
    IN  CallFormatFigure(data, f1, given, kwargs, <<>>)

\* Bar charts: the category axis counts in 1/(6 * columns) for grouped bars (a bar
\* is (2/3)/columns = 4 units thick) and in 1/50 for stacked bars (.66 = 33 units).
\* A limit the caller gives is a whole number of axis units.
BarParams == {"xmin", "xmax", "ymin", "ymax", "color"}
LimPair(lim) == Some(<<Some(lim[1]), Some(lim[2])>>)
\* "{:.2%}".format(k) and '{:.0%}'.format(i) for an integral value
FmtPct2(k) == ToString(100 * k) \o ".00%"
FmtPct0(k) == ToString(100 * k) \o "%"
\* bars of one group all at the group's position
BarOffsetNone(k) == 0
\* bars + i * width: the offset of the bars of column k within their group, in
\* axis units
BarOffset(k) == 4 * (k - 1)

DrawVerticalBarChart(data, kw) ==
    LET xmin == Arg(kw, "xmin", None)
        xmax == Arg(kw, "xmax", None)
        ymin == Arg(kw, "ymin", None)
        ymax == Arg(kw, "ymax", None)
        color == PickColors(data, Arg(kw, "color", Some(<<0>>)))
        kwargs == Rest(kw, BarParams)
        n == NCols(data)
        m == NRows(data)
        den == 6 * n
        f0 == Subplots
        f1 == [f0 EXCEPT
                 !.xden = den,
                 !.drawn = [k \in 1..n |->
                              [art |-> "bar", col |-> k, color |-> color[k], thick |-> 4,
                               pos |-> [j \in 1..m |-> den * (j - 1) + BarOffset(k)],
                               base |-> [j \in 1..m |-> 0]]],
                 !.texts = [t \in 1..(n * m) |->
                              FmtComma0(data.cols[((t - 1) \div m) + 1][((t - 1) % m) + 1])],
                 !.textsize = Some(18 - n * 3),
                 !.ylim = AutoLimSticky(SetMin(AllValues(data)), SetMax(AllValues(data)))]
        xlim == <<IF TruthyNum(xmin) THEN den * xmin[1] ELSE -(3 * n),
                  IF TruthyNum(xmax) THEN den * xmax[1] ELSE den * (m - 1) + 4 * n>>
        ylim == <<IF TruthyNum(ymin) THEN ymin[1] ELSE f1.ylim[1],
                  IF TruthyNum(ymax) THEN ymax[1] ELSE f1.ylim[2]>>
        yticks == AutoTicks(f1.ylim)
        f2 == [f1 EXCEPT
                 !.xlocs = Some([j \in 1..m |-> den * (j - 1) + 2 * (n - 1)]),
                 !.xlabels = Some(IndexLabels(data)),
                 !.ylabels = Some([p \in 1..Len(yticks) |-> FmtComma0(yticks[p])]),
                 !.left = FALSE, !.bottom = TRUE]
        r == FixXaxisVerticalBar(data, f2, <<>>)
        given == ("xlim" :> LimPair(xlim)) @@ ("ylim" :> LimPair(ylim))
                 @@ ("grid" :> Some(TRUE))
    IN  IF Len(color) < n THEN Raise("IndexError", f0, <<>>)
        ELSE CallFormatFigure(data, r.fig, given, kwargs, r.out)

DrawHorizontalBarChart(data, kw) ==
    LET xmin == Arg(kw, "xmin", None)
        xmax == Arg(kw, "xmax", None)
        ymin == Arg(kw, "ymin", None)
        ymax == Arg(kw, "ymax", None)
        color == PickColors(data, Arg(kw, "color", Some(<<0>>)))
        kw0 == Rest(kw, BarParams)
        n == NCols(data)
        m == NRows(data)
        den == 6 * n
        f0 == Subplots
        label(k, j) == IF SeqMax(data.cols[k]) < 1 THEN FmtPct2(data.cols[k][j])
                       ELSE FmtComma0(data.cols[k][j])
        f1 == [f0 EXCEPT
                 !.yden = den,
                 !.drawn = [k \in 1..n |->
                              [art |-> "barh", col |-> k, color |-> color[k], thick |-> 4,
                               pos |-> [j \in 1..m |-> den * (j - 1) + BarOffset(k)],
                               base |-> [j \in 1..m |-> 0]]],
                 !.texts = [t \in 1..(n * m) |->
                              label(((t - 1) \div m) + 1, ((t - 1) % m) + 1)],
                 !.textsize = Some(18 - n * 3),
                 !.xlim = AutoLimSticky(SetMin(AllValues(data)), SetMax(AllValues(data)))]
        ylim == <<IF TruthyNum(ymin) THEN den * ymin[1] ELSE -(3 * n),
                  IF TruthyNum(ymax) THEN den * ymax[1] ELSE den * (m - 1) + 4 * n>>
        xlim == <<IF TruthyNum(xmin) THEN xmin[1] ELSE f1.xlim[1],
                  IF TruthyNum(xmax) THEN xmax[1] ELSE f1.xlim[2]>>
        xticks == AutoTicks(f1.xlim)
        f2 == [f1 EXCEPT
                 !.ylocs = Some([j \in 1..m |-> den * (j - 1) + 2 * (n - 1)]),
                 !.ylabels = Some(IndexLabels(data)),
                 !.xlabels = Some([p \in 1..Len(xticks) |->
                                     IF xlim[2] < 1 THEN FmtPct0(xticks[p])
                                     ELSE FmtComma0(xticks[p])]),
                 !.left = TRUE, !.bottom = FALSE]
        kw1 == IF "xlabel" \notin DOMAIN kw0 THEN With(kw0, "xlabel", Some(data.names[1]))
               ELSE kw0
        kw2 == IF "ylabel" \notin DOMAIN kw1 THEN With(kw1, "ylabel", data.iname) ELSE kw1
        given == ("xlim" :> LimPair(xlim)) @@ ("ylim" :> LimPair(ylim))
    IN  IF Len(color) < n THEN Raise("IndexError", f0, <<>>)
        ELSE CallFormatFigure(data, f2, given, kw2, <<>>)

\* the span of the stacked bars along the value axis
StackEnds(data) ==
    {DataBottoms(data, j, k) : j \in 1..NRows(data), k \in 1..NCols(data)}
    \cup {DataBottoms(data, j, k) + data.cols[k][j] : j \in 1..NRows(data), k \in 1..NCols(data)}

DrawVerticalStackedBar(data, kw) ==
    LET xmin == Arg(kw, "xmin", None)
        xmax == Arg(kw, "xmax", None)
        ymin == Arg(kw, "ymin", None)
        ymax == Arg(kw, "ymax", None)
        kwargs == Rest(kw, BarParams)
        n == NCols(data)
        m == NRows(data)
        f0 == Subplots
        f1 == [f0 EXCEPT
                 !.xden = 50,
                 !.drawn = [d \in 1..n |->
                              [art |-> "bar", col |-> n + 1 - d, thick |-> 33,
                               pos |-> [j \in 1..m |-> 50 * (j - 1)],
                               base |-> [j \in 1..m |-> DataBottoms(data, j, n + 1 - d)]]],
                 !.legend = TRUE,
                 !.ylim = AutoLimSticky(SetMin(StackEnds(data)), SetMax(StackEnds(data)))]
        xlim == <<IF TruthyNum(xmin) THEN 50 * xmin[1] ELSE -33,
                  IF TruthyNum(xmax) THEN 50 * xmax[1] ELSE 50 * (m - 1) + 33>>
        ylim == <<IF TruthyNum(ymin) THEN ymin[1] ELSE f1.ylim[1],
                  IF TruthyNum(ymax) THEN ymax[1] ELSE f1.ylim[2]>>
        yticks == AutoTicks(f1.ylim)
        f2 == [f1 EXCEPT
                 !.xlocs = Some([j \in 1..m |-> 50 * (j - 1)]),
                 !.xlabels = Some(IndexLabels(data)),
                 !.ylabels = Some([p \in 1..Len(yticks) |-> FmtComma0(yticks[p])]),
                 !.left = FALSE, !.bottom = TRUE]
        r == FixXaxisVerticalBar(data, f2, <<>>)
        given == ("xlim" :> LimPair(xlim)) @@ ("ylim" :> LimPair(ylim))
    IN  CallFormatFigure(data, r.fig, given, kwargs, r.out)

DrawHorizontalStackedBar(data, kw) ==
    LET xmin == Arg(kw, "xmin", None)
        xmax == Arg(kw, "xmax", None)
        ymin == Arg(kw, "ymin", None)
        ymax == Arg(kw, "ymax", None)
        kw0 == Rest(kw, BarParams)
        n == NCols(data)
        m == NRows(data)
        f0 == Subplots
        f1 == [f0 EXCEPT
                 !.yden = 50,
                 !.drawn = [k \in 1..n |->
                              [art |-> "barh", col |-> k, thick |-> 33,
                               pos |-> [j \in 1..m |-> 50 * (j - 1)],
                               base |-> [j \in 1..m |-> DataBottoms(data, j, k)]]],
                 !.legend = TRUE,
                 !.xlim = AutoLimSticky(SetMin(StackEnds(data)), SetMax(StackEnds(data)))]
        ylim == <<IF TruthyNum(ymin) THEN 50 * ymin[1] ELSE -33,
                  IF TruthyNum(ymax) THEN 50 * ymax[1] ELSE 50 * (m - 1) + 33>>
        xlim == <<IF TruthyNum(xmin) THEN xmin[1] ELSE f1.xlim[1],
                  IF TruthyNum(xmax) THEN xmax[1] ELSE f1.xlim[2]>>
        f2 == [f1 EXCEPT
                 !.ylocs = Some([j \in 1..m |-> 50 * (j - 1)]),
                 !.ylabels = Some(IndexLabels(data))]
        kw1 == IF "xlabel" \notin DOMAIN kw0 THEN With(kw0, "xlabel", Some(data.names[1]))
               ELSE kw0
        kw2 == IF "ylabel" \notin DOMAIN kw1 THEN With(kw1, "ylabel", data.iname) ELSE kw1
        given == ("xlim" :> LimPair(xlim)) @@ ("ylim" :> LimPair(ylim))
    IN  CallFormatFigure(data, f2, given, kw2, <<>>)

\* ------------------------------------------- the limit helpers of the formatter
\* min_max_line_area_formatter(fig, ax, data, xmin, xmax, ymin, ymax): `if xmin:`
\* takes a bound of 0 like one that was not given
MinMaxLineAreaFormatter(fig, data, kw) ==
    LET xmin == Arg(kw, "xmin", None)
        xmax == Arg(kw, "xmax", None)
        ymin == Arg(kw, "ymin", None)
        ymax == Arg(kw, "ymax", None)
        x1 == IF TruthyNum(xmin)
              THEN IF TruthyNum(xmax) THEN SetLim(fig.xlim, xmin, xmax)
                   ELSE SetLim(fig.xlim, xmin, None)
              ELSE IF TruthyNum(xmax) THEN SetLim(fig.xlim, Some(SeqMin(data.index)), xmax)
              ELSE fig.xlim
        y1 == IF TruthyNum(ymin)
              THEN IF TruthyNum(ymax) THEN SetLim(fig.ylim, ymin, ymax)
                   ELSE SetLim(fig.ylim, ymin, None)
              ELSE IF TruthyNum(ymax) THEN SetLim(fig.ylim, Some(0), ymax)
              ELSE fig.ylim
        x2 == IF ~TruthyNum(xmin) /\ ~TruthyNum(xmax)
              THEN SetLim(x1, Some(SeqMin(data.index)), Some(SeqMax(data.index)))
              ELSE x1
        y2 == IF ~TruthyNum(ymin) /\ ~TruthyNum(ymax) THEN SetLim(y1, Some(0), None) ELSE y1
    IN  [fig EXCEPT !.xlim = x2, !.ylim = y2]
\* the axes a caller hands to min_max_line_area_formatter: the lines of data
\* plotted on a new figure
PlottedLines(data) ==
    [Subplots EXCEPT
       !.drawn = [k \in 1..NCols(data) |-> [art |-> "line", col |-> k]],
       !.xlim = AutoLim(SeqMin(data.index), SeqMax(data.index)),
       !.ylim = AutoLim(SetMin(AllValues(data)), SetMax(AllValues(data)))]

\* ------------------------------------------- the tick helpers of the formatter
\* the text of a tick value that is set as a label unformatted
FmtFloat(i) == ToString(i) \o ".0"
\* the labels the helpers derive from tick values: thousands with a K from
\* 1,000,000 on; below that the whole number for a year axis, and thousands
\* separators otherwise
DeriveLabels(ticks, year) ==
    IF SeqMax(ticks) >= 1000000 THEN ThousandsLabels(ticks, Some(TRUE))
    ELSE IF TruthyBool(year) THEN [p \in 1..Len(ticks) |-> FmtInt(ticks[p])]
    ELSE [p \in 1..Len(ticks) |-> FmtComma0(ticks[p])]

\* set_ticks_nonbar(fig, ax, xtick_loc, xticklabels, ytick_loc, yticklabels, xyear,
\* yyear): labels that are given are set only next to locations; a location that
\* is one number stands for the list of it
SetTicksNonbar(fig, kw, out) ==
    LET xtick_loc == Arg(kw, "xtick_loc", None)
        xticklabels == Arg(kw, "xticklabels", None)
        ytick_loc == Arg(kw, "ytick_loc", None)
        yticklabels == Arg(kw, "yticklabels", None)
        xyear == Arg(kw, "xyear", None)
        yyear == Arg(kw, "yyear", None)
        f1 == IF TruthySeq(xtick_loc)
              THEN [fig EXCEPT !.xlocs = xtick_loc,
                               !.xlabels = IF TruthySeq(xticklabels) THEN xticklabels ELSE @]
              ELSE fig
        f2 == IF TruthySeq(ytick_loc)
              THEN [f1 EXCEPT !.ylocs = ytick_loc,
                              !.ylabels = IF TruthySeq(yticklabels) THEN yticklabels ELSE @]
              ELSE f1
        f3 == IF ~TruthySeq(xticklabels) /\ FirstLabelEmpty(f2.xlabels)
              THEN [f2 EXCEPT !.xlabels = Some(DeriveLabels(GetTicks(f2.xlim, f2.xlocs), xyear))]
              ELSE f2
        f4 == IF ~TruthySeq(yticklabels) /\ FirstLabelEmpty(f3.ylabels)
              THEN [f3 EXCEPT !.ylabels = Some(DeriveLabels(GetTicks(f3.ylim, f3.ylocs), yyear))]
              ELSE f3
    IN  Done(f4, out)

\* the advisory of axis_labels_vbar: printed once, at the first label at which
\* the length test holds
HbarAdviceOnce(labels) ==
    IF HbarAdvice(labels) = <<>> THEN <<>> ELSE <<"consider horizontal_bar">>
\* the advisory about the number of labels along the index axis
LabelCountAdvice(data, labels, axis) ==
    IF Len(labels) < NRows(data) THEN <<"too few " \o axis \o "-axis labels">>
    ELSE IF Len(labels) > NRows(data) THEN <<"too many " \o axis \o "-axis labels">>
    ELSE <<>>

\* axis_labels_vbar(fig, ax, data, xyear, yyear, xticklabels, ytick_loc,
\* yticklabels): yyear is taken and not used; `label.get_text().isdigit` is not
\* called, so the year test is the length of the first label alone
AxisLabelsVbar(fig, data, kw, out) ==
    LET xticklabels == Arg(kw, "xticklabels", None)
        ytick_loc == Arg(kw, "ytick_loc", None)
        yticklabels == Arg(kw, "yticklabels", None)
        xyear == Arg(kw, "xyear", None)
        f1 == IF TruthySeq(xticklabels) THEN [fig EXCEPT !.xlabels = xticklabels] ELSE fig
        o1 == IF TruthySeq(xticklabels)
              THEN out \o LabelCountAdvice(data, xticklabels[1], "x") ELSE out
        f2 == IF TruthySeq(ytick_loc) THEN [f1 EXCEPT !.ylocs = ytick_loc] ELSE f1
        f3 == IF TruthySeq(yticklabels) THEN [f2 EXCEPT !.ylabels = yticklabels] ELSE f2
        f4 == IF ~TruthySeq(xticklabels)
              THEN [f3 EXCEPT !.xlabels = Some(DeriveLabels(data.index, xyear))]
              ELSE f3
        yticks == GetTicks(f4.ylim, f4.ylocs)
        f5 == IF ~TruthySeq(yticklabels)
              THEN [f4 EXCEPT !.ylabels =
                      Some(IF FirstLabelEmpty(f4.ylabels) THEN DeriveLabels(yticks, None)
                           ELSE [p \in 1..Len(yticks) |-> FmtFloat(yticks[p])])]
              ELSE f4
        labels == f5.xlabels[1]
    IN  IF Len(labels[1]) = 4
        THEN Done(IF Len(labels) > 12
                  THEN [f5 EXCEPT !.hidden = {j \in 1..Len(labels) : j % 2 = 0}]
                  ELSE f5, o1)
        ELSE Done(f5, o1 \o HbarAdviceOnce(labels))

\* axis_labels_hbar(fig, ax, data, xtick_loc, xticklabels, ytick_loc, yticklabels,
\* yyear): the index values are formatted only when their type is int or float,
\* which the elements of an int64 index are not, and textwrap.fill takes text only
AxisLabelsHbar(fig, data, kw, out) ==
    LET xtick_loc == Arg(kw, "xtick_loc", None)
        xticklabels == Arg(kw, "xticklabels", None)
        yticklabels == Arg(kw, "yticklabels", None)
        yyear == Arg(kw, "yyear", None)
        f1 == IF TruthySeq(yticklabels) THEN [fig EXCEPT !.ylabels = yticklabels] ELSE fig
        o1 == IF TruthySeq(yticklabels)
              THEN out \o LabelCountAdvice(data, yticklabels[1], "y") ELSE out
        f2 == IF TruthySeq(xtick_loc) THEN [f1 EXCEPT !.xlocs = xtick_loc] ELSE f1
        f3 == IF TruthySeq(xticklabels) THEN [f2 EXCEPT !.xlabels = xticklabels] ELSE f2
        xticks == GetTicks(f3.xlim, f3.xlocs)
        f4 == IF ~TruthySeq(xticklabels)
              THEN [f3 EXCEPT !.xlabels =
                      Some(IF FirstLabelEmpty(f3.xlabels) THEN DeriveLabels(xticks, None)
                           ELSE [p \in 1..Len(xticks) |-> FmtFloat(xticks[p])])]
              ELSE f3
        formatted == data.itype = "int"
                     /\ (SeqMax(data.index) >= 1000000 \/ ~TruthyBool(yyear))
        f5 == [f4 EXCEPT !.ylabels = Some(DeriveLabels(data.index, yyear))]
    IN  IF TruthySeq(yticklabels) THEN Done(f4, o1)
        ELSE IF formatted THEN Done(f5, o1)
        ELSE Raise("AttributeError", f4, o1)

\* the axes a caller hands to axis_labels_vbar: the bars of data on a new figure,
\* a tick at every bar
PlottedBars(data) ==
    LET n == NCols(data)
        m == NRows(data)
        den == 6 * n
    IN  [Subplots EXCEPT
           !.xden = den,
           !.drawn = [k \in 1..n |->
                        [art |-> "bar", col |-> k, thick |-> 4,
                         pos |-> [j \in 1..m |-> den * (j - 1) + BarOffset(k)],
                         base |-> [j \in 1..m |-> 0]]],
           !.xlim = <<-(3 * n), den * (m - 1) + 4 * n>>,
           !.ylim = AutoLimSticky(SetMin(AllValues(data)), SetMax(AllValues(data))),
           !.xlocs = Some([j \in 1..m |-> den * (j - 1) + 2 * (n - 1)])]
\* the axes a caller hands to axis_labels_hbar
PlottedBarsH(data) ==
    LET n == NCols(data)
        m == NRows(data)
        den == 6 * n
    IN  [Subplots EXCEPT
           !.yden = den,
           !.drawn = [k \in 1..n |->
                        [art |-> "barh", col |-> k, thick |-> 4,
                         pos |-> [j \in 1..m |-> den * (j - 1) + BarOffset(k)],
                         base |-> [j \in 1..m |-> 0]]],
           !.ylim = <<-(3 * n), den * (m - 1) + 4 * n>>,
           !.xlim = AutoLimSticky(SetMin(AllValues(data)), SetMax(AllValues(data))),
           !.ylocs = Some([j \in 1..m |-> den * (j - 1) + 2 * (n - 1)])]
\* a tick helper by name, on the axes its caller hands it
RunTickHelper(helper, data, kw) ==
    CASE helper = "set_ticks_nonbar" ->
           SetTicksNonbar(MinMaxLineAreaFormatter(PlottedLines(data), data, NoArgs), kw, <<>>)
      [] helper = "axis_labels_vbar" -> AxisLabelsVbar(PlottedBars(data), data, kw, <<>>)
      [] helper = "axis_labels_hbar" -> AxisLabelsHbar(PlottedBarsH(data), data, kw, <<>>)

\* ----------------------------------------------------------- the dispatcher
\* a table whose 'scatter' and 'line' entries are exchanged
KindsExchanged == ("line" :> "draw_scatter_plot")
         @@ ("stacked_area" :> "draw_filled_line_chart")
         @@ ("scatter" :> "draw_line_chart")
         @@ ("horizontal_bar" :> "draw_horizontal_bar_chart")
         @@ ("vertical_bar" :> "draw_vertical_bar_chart")
         @@ ("stacked_vbar" :> "draw_vertical_stacked_bar")
         @@ ("stacked_hbar" :> "draw_horizontal_stacked_bar")
\* create_figure's table from kind to drawing routine
Kinds == ("line" :> "draw_line_chart")
         @@ ("stacked_area" :> "draw_filled_line_chart")
         @@ ("scatter" :> "draw_scatter_plot")
         @@ ("horizontal_bar" :> "draw_horizontal_bar_chart")
         @@ ("vertical_bar" :> "draw_vertical_bar_chart")
         @@ ("stacked_vbar" :> "draw_vertical_stacked_bar")
         @@ ("stacked_hbar" :> "draw_horizontal_stacked_bar")
Draw(routine, data, kw) ==
    CASE routine = "draw_line_chart" -> DrawLineChart(data, kw)
      [] routine = "draw_filled_line_chart" -> DrawFilledLineChart(data, kw)
      [] routine = "draw_scatter_plot" -> DrawScatterPlot(data, kw)
      [] routine = "draw_horizontal_bar_chart" -> DrawHorizontalBarChart(data, kw)
      [] routine = "draw_vertical_bar_chart" -> DrawVerticalBarChart(data, kw)
      [] routine = "draw_vertical_stacked_bar" -> DrawVerticalStackedBar(data, kw)
      [] routine = "draw_horizontal_stacked_bar" -> DrawHorizontalStackedBar(data, kw)

\* a create_figure that draws a line chart for a kind it does not know
RunCreateFigureFallback(data, kw) ==
    LET kind == Arg(kw, "kind", Some("line"))[1]
        routine == IF kind \in DOMAIN Kinds THEN Kinds[kind] ELSE "draw_line_chart"
        r == Draw(routine, data, Rest(kw, {"kind"}))
    IN  [err |-> r.err, routine |-> routine,
         fig |-> IF r.err = "" THEN Some(r.fig) ELSE None, out |-> r.out]
\* create_figure(data, kind='line', **kwargs): the routine that ran ("" when none
\* did), the error raised, the figure returned and the lines printed
RunCreateFigure(data, kw) ==
    LET kind == Arg(kw, "kind", Some("line"))[1]
        r == Draw(Kinds[kind], data, Rest(kw, {"kind"}))
    IN  IF kind \notin DOMAIN Kinds
        THEN [err |-> "NotImplementedError", routine |-> "", fig |-> None, out |-> <<>>]
        ELSE [err |-> r.err, routine |-> Kinds[kind],
              fig |-> IF r.err = "" THEN Some(r.fig) ELSE None, out |-> r.out]

\* the formats Figure.savefig can encode
SaveFormats == {"png", "pdf", "svg", "svgz", "raw", "rgba"}
\* fig.savefig(imagebuffer, format=format, bbox_inches='tight', dpi='figure'): the
\* bytes written, as the format and the picture they encode
Encode(fig, format) == [format |-> format, bbox |-> "tight", picture |-> fig]
\* a buffer left where the write ended
SeekNone(buffer) == buffer
\* imagebuffer.seek(0)
Seek0(buffer) == [buffer EXCEPT !.pos = 0]
\* create_image(data, format='png', **kwargs)
RunCreateImage(data, kw) ==
    LET format == Arg(kw, "format", Some("png"))[1]
        r == RunCreateFigure(data, Rest(kw, {"format"}))
        written == [bytes |-> Some(Encode(r.fig[1], format)), pos |-> 1]
    IN  IF r.err # "" THEN r @@ [buf |-> None]
        ELSE IF format \notin SaveFormats
        THEN [r EXCEPT !.err = "ValueError", !.fig = None] @@ [buf |-> None]
        ELSE [r EXCEPT !.fig = None] @@ [buf |-> Some(Seek0(written))]

\* Path(outfile): the directories down to the file's own (outfile.parent), the
\* name without its suffix, and the suffix without its dot
\* (outfile.suffix.strip('.'))
Outfile(parent, stem, suffix) == [parent |-> parent, stem |-> stem, suffix |-> suffix]
\* a directory and the directories above it
Ancestors(dir) == {SubSeq(dir, 1, n) : n \in 1..Len(dir)}
\* dir.mkdir(parents=True, exist_ok=True)
Mkdir(dirs, dir) == dirs \cup Ancestors(dir)
\* an index of dtype object holds strings; the model keeps the string of a year
\* as the number its digits spell. pd.to_datetime reads it as 1 January of that
\* year, kept here as the days since 1 January 1970
LeapsBefore(y) == ((y - 1) \div 4) - ((y - 1) \div 100) + ((y - 1) \div 400)
DaysToYear(y) == 365 * (y - 1970) + LeapsBefore(y) - LeapsBefore(1970)
\* the years a nanosecond timestamp reaches; a string outside them makes
\* pd.to_datetime raise OutOfBoundsDatetime, a ValueError
TimestampYears == 1678..2261
\* the caller's dataset after the first lines of save_fig of __main__:
\* `data.index = pd.to_datetime(data.index)` is an assignment to the frame the
\* caller passed, made when the dtype of the index is object and every entry
\* parses; a ValueError is passed over and leaves the index as it was
IndexToDatetime(data) ==
    IF data.itype = "O" /\ \A j \in 1..NRows(data) : data.index[j] \in TimestampYears
    THEN [data EXCEPT !.index = [j \in 1..NRows(data) |-> DaysToYear(data.index[j])],
                      !.itype = "datetime64[ns]"]
    ELSE data
\* save_fig(outfile, data=data, **kwargs) of __main__: the directory is made first;
\* the format is the suffix, handed to create_image next to **kwargs, so a format
\* among the kwargs is a second value for that parameter
RunSaveFig(outfile, data, kw) ==
    LET format == outfile.suffix
        r == RunCreateImage(IndexToDatetime(data), With(kw, "format", Some(format)))
    IN  IF "format" \in DOMAIN kw
        THEN [err |-> "TypeError", routine |-> "", fig |-> None, out |-> <<>>, buf |-> None]
        ELSE r

\* graphics.draw_chart(**kwargs), the dispatcher the package's save_fig calls
DrawChart(data, kw) == RunCreateFigure(data, kw)
\* fig.savefig(str(outfile), format=format): the bytes of the file
EncodeFile(fig, format) == [format |-> format, bbox |-> "standard", picture |-> fig]
\* save_fig(outfile, format='png', **kwargs) of the package: the chart is drawn
\* first, and the format is the parameter's whatever the suffix of outfile
RunSaveFigPackage(outfile, data, kw) ==
    LET format == Arg(kw, "format", Some("png"))[1]
        r == DrawChart(data, Rest(kw, {"format"}))
    IN  IF r.err # "" THEN r @@ [buf |-> None, mkdir |-> FALSE]
        ELSE IF format \notin SaveFormats
        THEN [r EXCEPT !.err = "ValueError", !.fig = None] @@ [buf |-> None, mkdir |-> TRUE]
        ELSE [r EXCEPT !.fig = None]
             @@ [buf |-> Some([bytes |-> Some(EncodeFile(r.fig[1], format)), pos |-> 1]),
                 mkdir |-> TRUE]

\* ------------------------------------------------------------ the command line
\* the flags parse_args stores as True when given and as False otherwise
StoreTrueFlags == {"spines", "ticks", "xyear", "yyear", "grid", "xlabel_off", "ylabel_off",
                   "label_lines", "label_area", "label_bars", "pubs_format", "logo_off"}
\* the flags that take a value, None when not given
ValueFlags == {"title", "size", "ymin", "xmin", "ymax", "xmax", "xlabel", "ylabel", "source",
               "xtick_loc", "ytick_loc", "xticklabels", "yticklabels", "rot", "lw", "color"}
\* vars(parse_args(args)) without data, outfile and verbose: flags holds the flags
\* of the command line with their values
ParseArgs(flags) ==
    [n \in StoreTrueFlags \cup ValueFlags \cup {"kind"} |->
        IF n \in DOMAIN flags THEN flags[n]
        ELSE IF n \in StoreTrueFlags THEN Some(FALSE)
        ELSE IF n = "kind" THEN Some("line")
        ELSE None]
\* main(args): the arguments that are not None become the kwargs of save_fig;
\* outfile is None when -o was not given
RunMain(outfile, data, flags) ==
    LET args == ParseArgs(flags)
        kwargs == [n \in {m \in DOMAIN args : args[m] # None} |-> args[n]]
    IN  IF outfile = None
        THEN [err |-> "KeyError", routine |-> "", fig |-> None, out |-> <<>>, buf |-> None]
        ELSE RunSaveFig(outfile[1], data, kwargs)

\* ------------------------------------------------------------------ the state
NoFiles == [dirs |-> {}, files |-> <<>>]
NoResult == [call |-> "", data |-> None, after |-> None, kw |-> NoArgs, err |-> "",
             routine |-> "",
             fig |-> 0, out |-> <<>>, buf |-> None, outfile |-> None, path |-> None]

\* the figures of `figs` the caller still holds on to
Kept == IF held = None THEN {} ELSE {held[1].fig} \ {0}

\* a create_figure that draws on the library's current figure when there is one
CreateFigureReused(data, kw, r) ==
    LET made == r.routine # ""
        n == IF gcf = 0 THEN 1 ELSE gcf
    IN  /\ nfig < MaxCalls
        /\ nfig' = IF made THEN n ELSE nfig
        /\ gcf' = IF made THEN n ELSE gcf
        /\ figs' = [i \in Kept \cup (IF r.err = "" THEN {n} ELSE {}) |->
                      IF i = n /\ r.err = "" THEN r.fig[1] ELSE figs[i]]
        /\ ret' = [call |-> "create_figure", data |-> Some(data), after |-> Some(data),
                   kw |-> kw, err |-> r.err,
                   routine |-> r.routine, fig |-> IF r.err = "" THEN n ELSE 0,
                   out |-> r.out, buf |-> None, outfile |-> None, path |-> None]
        /\ UNCHANGED <<held, disk>>
\* one call of create_figure: r is what RunCreateFigure(data, kw) gives
CreateFigure(data, kw, r) ==
    LET made == r.routine # ""
    IN  /\ nfig < MaxCalls
        /\ nfig' = IF made THEN nfig + 1 ELSE nfig
        /\ gcf' = IF made THEN nfig + 1 ELSE gcf
        /\ figs' = [i \in Kept \cup (IF r.err = "" THEN {nfig + 1} ELSE {}) |->
                      IF i = nfig + 1 THEN r.fig[1] ELSE figs[i]]
        /\ ret' = [call |-> "create_figure", data |-> Some(data), after |-> Some(data),
                   kw |-> kw, err |-> r.err,
                   routine |-> r.routine, fig |-> IF r.err = "" THEN nfig + 1 ELSE 0,
                   out |-> r.out, buf |-> None, outfile |-> None, path |-> None]
        /\ UNCHANGED <<held, disk>>

\* one call of create_image: r is what RunCreateImage(data, kw) gives
CreateImage(data, kw, r) ==
    LET made == r.routine # ""
    IN  /\ nfig < MaxCalls
        /\ nfig' = IF made THEN nfig + 1 ELSE nfig
        /\ gcf' = IF made THEN nfig + 1 ELSE gcf
        /\ figs' = [i \in Kept |-> figs[i]]
        /\ ret' = [call |-> "create_image", data |-> Some(data), after |-> Some(data),
                   kw |-> kw, err |-> r.err,
                   routine |-> r.routine, fig |-> 0, out |-> r.out, buf |-> r.buf,
                   outfile |-> None, path |-> None]
        /\ UNCHANGED <<held, disk>>

\* the files after outfile.write_bytes(bytes)
WriteBytes(files, outfile, bytes) ==
    [f \in DOMAIN files \cup {outfile} |-> IF f = outfile THEN bytes ELSE files[f]]

\* a save_fig that opens the output file before the chart is drawn
SaveFigOpensFirst(outfile, data, kw, r) ==
    LET made == r.routine # ""
        opened == WriteBytes(disk.files, outfile, Encode(NewFigure, outfile.suffix))
    IN  /\ nfig < MaxCalls
        /\ nfig' = IF made THEN nfig + 1 ELSE nfig
        /\ gcf' = IF made THEN nfig + 1 ELSE gcf
        /\ figs' = [i \in Kept |-> figs[i]]
        /\ disk' = [dirs |-> Mkdir(disk.dirs, outfile.parent),
                    files |-> IF r.err # "" THEN opened
                              ELSE WriteBytes(disk.files, outfile, r.buf[1].bytes[1])]
        /\ ret' = [call |-> "save_fig", data |-> Some(data),
                   after |-> Some(IndexToDatetime(data)), kw |-> kw, err |-> r.err,
                   routine |-> r.routine, fig |-> 0, out |-> r.out, buf |-> None,
                   outfile |-> Some(outfile),
                   path |-> IF r.err = "" THEN Some(outfile) ELSE None]
        /\ UNCHANGED held
\* one call of save_fig of __main__: r is what RunSaveFig(outfile, data, kw) gives
SaveFig(outfile, data, kw, r) ==
    LET made == r.routine # ""
    IN  /\ nfig < MaxCalls
        /\ nfig' = IF made THEN nfig + 1 ELSE nfig
        /\ gcf' = IF made THEN nfig + 1 ELSE gcf
        /\ figs' = [i \in Kept |-> figs[i]]
        /\ disk' = [dirs |-> Mkdir(disk.dirs, outfile.parent),
                    files |-> IF r.err # "" THEN disk.files
                              ELSE WriteBytes(disk.files, outfile, r.buf[1].bytes[1])]
        /\ ret' = [call |-> "save_fig", data |-> Some(data),
                   after |-> Some(IndexToDatetime(data)), kw |-> kw, err |-> r.err,
                   routine |-> r.routine, fig |-> 0, out |-> r.out, buf |-> None,
                   outfile |-> Some(outfile),
                   path |-> IF r.err = "" THEN Some(outfile) ELSE None]
        /\ UNCHANGED held

\* one call of the package's save_fig: r is what RunSaveFigPackage(outfile, data,
\* kw) gives
SaveFigPackage(outfile, data, kw, r) ==
    LET made == r.routine # ""
    IN  /\ nfig < MaxCalls
        /\ nfig' = IF made THEN nfig + 1 ELSE nfig
        /\ gcf' = IF made THEN nfig + 1 ELSE gcf
        /\ figs' = [i \in Kept |-> figs[i]]
        /\ disk' = [dirs |-> IF r.mkdir THEN Mkdir(disk.dirs, outfile.parent) ELSE disk.dirs,
                    files |-> IF r.err # "" THEN disk.files
                              ELSE WriteBytes(disk.files, outfile, r.buf[1].bytes[1])]
        /\ ret' = [call |-> "graphics.save_fig", data |-> Some(data), after |-> Some(data), kw |-> kw,
                   err |-> r.err, routine |-> r.routine, fig |-> 0, out |-> r.out,
                   buf |-> None, outfile |-> Some(outfile),
                   path |-> IF r.err = "" THEN Some(outfile) ELSE None]
        /\ UNCHANGED held

\* one run of the command line: r is what RunMain(outfile, data, flags) gives
Main(outfile, data, flags, r) ==
    LET made == r.routine # ""
    IN  /\ nfig < MaxCalls
        /\ nfig' = IF made THEN nfig + 1 ELSE nfig
        /\ gcf' = IF made THEN nfig + 1 ELSE gcf
        /\ figs' = [i \in Kept |-> figs[i]]
        /\ disk' = IF outfile = None THEN disk
                   ELSE [dirs |-> Mkdir(disk.dirs, outfile[1].parent),
                         files |-> IF r.err # "" THEN disk.files
                                   ELSE WriteBytes(disk.files, outfile[1], r.buf[1].bytes[1])]
        /\ ret' = [call |-> "main", data |-> Some(data), after |-> Some(data), kw |-> flags, err |-> r.err,
                   routine |-> r.routine, fig |-> 0, out |-> r.out, buf |-> None,
                   outfile |-> outfile, path |-> None]
        /\ UNCHANGED held

\* a caller plots the lines of data on a new figure and hands its axes to
\* min_max_line_area_formatter: fig is what the helper gives back
FormatLimits(data, kw, fig) ==
    /\ nfig < MaxCalls
    /\ nfig' = nfig + 1
    /\ gcf' = nfig + 1
    /\ figs' = [i \in Kept \cup {nfig + 1} |-> IF i = nfig + 1 THEN fig ELSE figs[i]]
    /\ ret' = [call |-> "min_max_line_area_formatter", data |-> Some(data), after |-> Some(data), kw |-> kw,
               err |-> "", routine |-> "", fig |-> nfig + 1, out |-> <<>>, buf |-> None,
               outfile |-> None, path |-> None]
    /\ UNCHANGED <<held, disk>>

\* a caller draws data on a new figure and hands its axes to one of the tick
\* helpers: r is what RunTickHelper(helper, data, kw) gives
TickHelper(helper, data, kw, r) ==
    /\ nfig < MaxCalls
    /\ nfig' = nfig + 1
    /\ gcf' = nfig + 1
    /\ figs' = [i \in Kept \cup (IF r.err = "" THEN {nfig + 1} ELSE {}) |->
                  IF i = nfig + 1 THEN r.fig ELSE figs[i]]
    /\ ret' = [call |-> helper, data |-> Some(data), after |-> Some(data),
                   kw |-> kw, err |-> r.err,
               routine |-> "", fig |-> IF r.err = "" THEN nfig + 1 ELSE 0, out |-> r.out,
               buf |-> None, outfile |-> None, path |-> None]
    /\ UNCHANGED <<held, disk>>

\* the caller keeps what the last call returned
Hold ==
    /\ ret.call # ""
    /\ held' = Some(ret)
    /\ figs' = [i \in {ret.fig} \ {0} |-> figs[i]]
    /\ UNCHANGED <<nfig, gcf, ret, disk>>

\* ------------------------------------------------------------------ the inputs
Title1 == <<"G", " ", "1", "9", "7", "0", "-", "2", "0", "1", "6">>
Title2 == <<"t", "e", "s", "t", "_", "t", "i", "t", "l", "e">>
Title3 == <<"a", "\\", "n", "b">>
Title4 == <<"1", "9", "7", "0", "-", "1", "9", "8", "0", "-", "1", "9", "9", "0">>
Title5 == <<"1", "9", "7", "0", "-", "8", "0", "\\", "n", "1", "2", "3", "4", "5", "-", "6", "7", "8", "9">>

BaseData == MkData(4, 1, 2, 3, 1)
Series == {MkData(n, 1, 2, 3, 1) : n \in 1..MaxPoints}
Tables == {MkData(4, c, 0, 5, 1970) : c \in 1..MaxCols}
Large == {MkData(6, 1, 1000000, 50000, 1990), MkData(3, 1, 250000, 500000, 1)}
Negative == {MkData(3, 1, -4, 3, 1)}
AllData == Series \cup Tables \cup Large \cup Negative

GoodKinds == DOMAIN Kinds
BadKinds == {"pie", "Pie"}
KindArgs == {NoArgs} \cup {("kind" :> Some(k)) : k \in GoodKinds \cup BadKinds}

LimitNames == {"xmin", "xmax", "ymin", "ymax"}
LimitArgs == {(n :> Some(v)) : n \in LimitNames, v \in {-5, 0, 3}}
             \cup {("ymin" :> Some(1)) @@ ("ymax" :> Some(20)),
                   ("xmin" :> Some(1)) @@ ("xmax" :> Some(20)),
                   ("ylim" :> Some(<<Some(1), Some(20)>>)),
                   ("xlim" :> Some(<<Some(2), None>>))}
Titles == {Title1, Title2, Title3, Title4, Title5}
TextArgs == {("title" :> Some(t)) : t \in Titles \cup {<<>>}}
            \cup {("source" :> Some(t)) : t \in Titles}
UnknownArgs == {("fake_param" :> Some(TRUE)), ("fake_param" :> None), ("alpha" :> Some(1))}
OtherArgs == {("label_thousands" :> Some(FALSE)), ("label_lines" :> Some(TRUE)),
              ("label_area" :> Some(TRUE)), ("grid" :> Some(FALSE)),
              ("spines" :> Some(FALSE)), ("rot" :> Some(45)),
              ("xlabel" :> Some("date")), ("ylabel_off" :> Some(TRUE)),
              ("yticks" :> Some(<<0, 5, 10>>)), ("xticks" :> Some(<<"a", "b", "c">>)),
              ("color" :> Some(<<1>>))}
\* the axis titles of test_axis_titles, and the switches that turn a title off
LabelArgs == {("xlabel" :> Some("test_xlabel")), ("ylabel" :> Some("test_ylabel")),
              ("xlabel_off" :> Some(TRUE)),
              ("xlabel_off" :> Some(TRUE)) @@ ("xlabel" :> Some("test_xlabel")),
              ("ylabel_off" :> Some(TRUE)) @@ ("ylabel" :> Some("test_ylabel")),
              ("xlabel_off" :> Some(FALSE)) @@ ("ylabel_off" :> Some(FALSE))}
OptionArgs == LimitArgs \cup TextArgs \cup UnknownArgs \cup OtherArgs \cup LabelArgs

\* the calls of create_figure the model makes
FigureCalls ==
    {<<d, k>> : d \in AllData, k \in KindArgs}
    \cup {<<BaseData, ("kind" :> Some(k)) @@ o>> : k \in GoodKinds, o \in OptionArgs}
    \cup {<<BaseData, o>> : o \in OptionArgs}
    \cup {<<d, ("kind" :> Some(k)) @@ ("label_thousands" :> Some(FALSE))>> :
            d \in Large, k \in GoodKinds}
    \cup {<<d, ("kind" :> Some(k)) @@ o>> : d \in Negative, k \in GoodKinds, o \in LimitArgs}
\* the calls of create_image the model makes
ImageCalls ==
    {<<BaseData, k @@ f>> : k \in KindArgs,
        f \in {NoArgs} \cup {("format" :> Some(x)) : x \in {"png", "svg", "bmp"}}}
    \cup {<<BaseData, ("format" :> Some("svg")) @@ o>> : o \in UnknownArgs \cup TextArgs}

\* the bounds handed to min_max_line_area_formatter: one axis at a time, and the
\* two pairs of the tests
HelperArgs ==
    {[n \in S |-> Some(v[n])] :
        S \in SUBSET {"xmin", "xmax"} \cup SUBSET {"ymin", "ymax"},
        v \in [LimitNames -> {-5, 0, 20}]}
    \cup {("ymin" :> Some(1)) @@ ("ymax" :> Some(20)),
          ("xmin" :> Some(1)) @@ ("xmax" :> Some(20))}
HelperCalls == {<<d, k>> : d \in {BaseData} \cup Negative, k \in HelperArgs}
\* the calls of save_fig the model makes
Outfiles == {Outfile(<<"tests", "test_output">>, "output", x) : x \in {"png", "svg", "bmp", ""}}
            \cup {Outfile(<<"a", "b", "c">>, "chart", "pdf")}
SaveCalls == {<<f, BaseData, k>> : f \in Outfiles,
                 k \in {NoArgs, ("kind" :> Some("scatter")), ("kind" :> Some("pie")),
                        ("fake_param" :> Some(TRUE)), ("format" :> Some("png"))}}
PackageSaveCalls == SaveCalls \cup {<<f, BaseData, ("format" :> Some("svg"))>> : f \in Outfiles}

\* the runs of the command line the model makes: the one of test_file_generation,
\* each kind alone, and one flag at a time
Source1 == <<"q", "u", "a", "n", "t", "g", "o", "v", ".", "o", "r", "g">>
TestFlags == ("title" :> Some(Title2)) @@ ("ylabel" :> Some("count"))
             @@ ("xlabel" :> Some("date")) @@ ("source" :> Some(Source1))
OneFlag == {(n :> Some(TRUE)) : n \in StoreTrueFlags}
           \cup {("ymin" :> Some(1)) @@ ("ymax" :> Some(20)), ("rot" :> Some(45)),
                 ("lw" :> Some(3)), ("color" :> Some(<<1>>)), ("size" :> Some("8"))}
MainCalls ==
    {<<Some(f), BaseData, k @@ o>> :
        f \in {Outfile(<<"tests", "test_output">>, "testchart", "png")},
        k \in KindArgs, o \in {NoArgs, TestFlags}}
    \cup {<<Some(Outfile(<<"tests", "test_output">>, "testchart", "png")), BaseData, o>> :
            o \in OneFlag}
    \cup {<<f, BaseData, TestFlags>> :
            f \in {None, Some(Outfile(<<"out">>, "chart", "svg"))}}

\* the tick options: locations and labels of test_line_2 and test_hbar_stack_3,
\* label lists shorter and longer than the index, and the year flags
TickHelpers == {"set_ticks_nonbar", "axis_labels_vbar", "axis_labels_hbar"}
HelperTickArgs ==
    {NoArgs,
     ("xtick_loc" :> Some(<<1, 3>>)),
     ("xtick_loc" :> Some(<<1, 3>>)) @@ ("xticklabels" :> Some(<<"hi", "hello">>)),
     ("xtick_loc" :> Some(<<1, 2, 3>>)) @@ ("xticklabels" :> Some(<<"hi", "hello">>)),
     ("xticklabels" :> Some(<<"hi", "hello", "goodbye">>)),
     ("xticklabels" :> Some(<<"a", "b", "c", "d">>)),
     ("xticklabels" :> Some(<<"a", "b", "c", "d", "e">>)),
     ("ytick_loc" :> Some(<<0, 5, 10>>)),
     ("ytick_loc" :> Some(<<0, 5, 10>>)) @@ ("yticklabels" :> Some(<<"test", "test", "t">>)),
     ("yticklabels" :> Some(<<"test", "test">>)),
     ("yticklabels" :> Some(<<"a", "b", "c", "d">>)),
     ("xyear" :> Some(TRUE)),
     ("yyear" :> Some(TRUE)),
     ("xyear" :> Some(TRUE)) @@ ("yyear" :> Some(TRUE)),
     ("xyear" :> Some(TRUE)) @@ ("xticklabels" :> Some(<<"a", "b", "c", "d">>))}
\* data whose index, or whose values, reach 1,000,000, and data with an index of
\* Python ints
WideIndex == MkData(3, 1, 2000, 1000, 1000000)
TickData == {BaseData, MkData(4, 1, 0, 5, 1970), MkData(4, 1, 1970, 5, 1970), WideIndex}
            \cup Large
TickHelperCalls ==
    {<<h, d, k>> : h \in TickHelpers, d \in TickData, k \in HelperTickArgs}
    \cup {<<"axis_labels_hbar", [d EXCEPT !.itype = "int"], k>> :
            d \in TickData, k \in HelperTickArgs}
\* the tick options of create_figure: xticks are labels, yticks are locations
FigureTickArgs ==
    {NoArgs,
     ("xticks" :> Some(<<"a", "b", "c">>)),
     ("xticks" :> Some(<<"a", "b", "c", "d">>)),
     ("xticks" :> Some(<<"a", "b", "c", "d", "e", "f">>)),
     ("xticklabels" :> Some(<<"a", "b", "c", "d">>)),
     ("yticklabels" :> Some(<<"test", "test">>)),
     ("yticks" :> Some(<<0, 5, 10>>)),
     ("yticks" :> Some(<<0, 5, 10>>)) @@ ("yticklabels" :> Some(<<"x", "y", "z">>))}
TickFigureCalls ==
    {<<d, ("kind" :> Some(k)) @@ o>> :
        d \in {BaseData, MkData(7, 1, 2, 3, 1), MkData(4, 1, 0, 5, 1970)} \cup Large \cup Negative,
        k \in GoodKinds, o \in FigureTickArgs}

Init ==
    /\ nfig = 0
    /\ gcf = 0
    /\ figs = <<>>
    /\ ret = NoResult
    /\ held = None
    /\ disk = NoFiles

\* every call with what it gives (each run is compared once, which brings its
\* records to normal form before any of them is shared between states)
FigureRuns ==
    LET runs == {[data |-> c[1], kw |-> c[2], r |-> RunCreateFigure(c[1], c[2])] :
                    c \in FigureCalls}
    IN  {c \in runs : c = c}
ImageRuns ==
    LET runs == {[data |-> c[1], kw |-> c[2], r |-> RunCreateImage(c[1], c[2])] :
                    c \in ImageCalls}
    IN  {c \in runs : c = c}

HelperRuns ==
    LET runs == {[data |-> c[1], kw |-> c[2],
                  fig |-> MinMaxLineAreaFormatter(PlottedLines(c[1]), c[1], c[2])] :
                    c \in HelperCalls}
    IN  {c \in runs : c = c}
SaveRuns ==
    LET runs == {[outfile |-> c[1], data |-> c[2], kw |-> c[3],
                  r |-> RunSaveFig(c[1], c[2], c[3])] : c \in SaveCalls}
    IN  {c \in runs : c = c}
PackageSaveRuns ==
    LET runs == {[outfile |-> c[1], data |-> c[2], kw |-> c[3],
                  r |-> RunSaveFigPackage(c[1], c[2], c[3])] : c \in PackageSaveCalls}
    IN  {c \in runs : c = c}

MainRuns ==
    LET runs == {[outfile |-> c[1], data |-> c[2], flags |-> c[3],
                  r |-> RunMain(c[1], c[2], c[3])] : c \in MainCalls}
    IN  {c \in runs : c = c}

TickHelperRuns ==
    LET runs == {[helper |-> c[1], data |-> c[2], kw |-> c[3],
                  r |-> RunTickHelper(c[1], c[2], c[3])] : c \in TickHelperCalls}
    IN  {c \in runs : c = c}
TickFigureRuns ==
    LET runs == {[data |-> c[1], kw |-> c[2], r |-> RunCreateFigure(c[1], c[2])] :
                    c \in TickFigureCalls}
    IN  {c \in runs : c = c}

Next ==
    \/ \E c \in FigureRuns : CreateFigure(c.data, c.kw, c.r)
    \/ \E c \in ImageRuns : CreateImage(c.data, c.kw, c.r)
    \/ \E c \in HelperRuns : FormatLimits(c.data, c.kw, c.fig)

Spec == Init /\ [][Next]_vars

\* The caller keeps one result and compares it with a later one: the calls are few,
\* every pair of them is made, with other calls in between.
TwoCalls ==
    {<<BaseData, k>> : k \in KindArgs \ {("kind" :> Some("Pie"))}}
    \cup {<<MkData(6, 2, 1000000, 50000, 1990), ("kind" :> Some(k))>> :
             k \in {"line", "vertical_bar"}}
    \cup {<<BaseData, o>> : o \in {("title" :> Some(Title1)), ("title" :> Some(Title2)),
                                   ("yticks" :> Some(<<0, 5, 10>>)),
                                   ("xticks" :> Some(<<"a", "b", "c">>)),
                                   ("ylim" :> Some(<<Some(1), Some(20)>>)),
                                   ("fake_param" :> Some(TRUE))}}
TwoRuns ==
    LET runs == {[data |-> c[1], kw |-> c[2], r |-> RunCreateFigure(c[1], c[2])] :
                    c \in TwoCalls}
    IN  {c \in runs : c = c}
NextTwo ==
    \/ \E c \in TwoRuns : CreateFigure(c.data, c.kw, c.r)
    \/ Hold
SpecTwo == Init /\ [][NextTwo]_vars

\* The image buffer and the file written from it.
NextFiles ==
    \/ \E c \in ImageRuns : CreateImage(c.data, c.kw, c.r)
    \/ \E c \in SaveRuns : SaveFig(c.outfile, c.data, c.kw, c.r)
SpecFiles == Init /\ [][NextFiles]_vars

\* The two revisions of save_fig: the one of __main__ and the package's.
NextSave ==
    \/ \E c \in SaveRuns : SaveFig(c.outfile, c.data, c.kw, c.r)
    \/ \E c \in PackageSaveRuns : SaveFigPackage(c.outfile, c.data, c.kw, c.r)
SpecSave == Init /\ [][NextSave]_vars

\* Ticks and tick labels: create_figure with tick options, and the tick helpers.
\* data whose values stay below 1, alone and next to a series that reaches 1, and
\* data of several columns
BelowOne == {MkData(3, 1, -2, 1, 1), MkData(3, 2, -2, 1, 1)}
BarLabelArgs == {NoArgs, ("color" :> Some(<<1>>)), ("title" :> Some(Title1))}
BarLabelCalls ==
    {<<d, ("kind" :> Some(k)) @@ o>> :
        d \in {BaseData, MkData(4, 3, 0, 5, 1970)} \cup BelowOne,
        k \in GoodKinds, o \in BarLabelArgs}
BarLabelRuns ==
    LET runs == {[data |-> c[1], kw |-> c[2], r |-> RunCreateFigure(c[1], c[2])] :
                    c \in BarLabelCalls}
    IN  {c \in runs : c = c}
\* charts of every kind of data with values below 1
NextBars == \E c \in BarLabelRuns : CreateFigure(c.data, c.kw, c.r)
SpecBars == Init /\ [][NextBars]_vars

\* every option of the documented set with a valid value, and the annotation
\* switches turned off
RecognizedArgs ==
    {("title" :> Some(Title1)), ("size" :> Some(<<8, 6>>)),
     ("xmin" :> Some(1)), ("xmax" :> Some(20)), ("ymin" :> Some(1)), ("ymax" :> Some(20)),
     ("xlabel" :> Some("test_xlabel")), ("ylabel" :> Some("test_ylabel")),
     ("source" :> Some(Title1)), ("spines" :> Some(TRUE)),
     ("xtick_loc" :> Some(<<1, 3>>)), ("ytick_loc" :> Some(<<0, 5, 10>>)),
     ("xticklabels" :> Some(<<"a", "b", "c">>)), ("yticklabels" :> Some(<<"x", "y", "z">>)),
     ("xyear" :> Some(TRUE)), ("yyear" :> Some(TRUE)), ("rot" :> Some(45)),
     ("xlabel_off" :> Some(TRUE)), ("ylabel_off" :> Some(TRUE)),
     ("label_bars" :> Some(TRUE)), ("label_lines" :> Some(TRUE)),
     ("label_area" :> Some(TRUE)), ("line_thickness" :> Some(3)),
     ("color" :> Some(<<1>>)), ("grid" :> Some(TRUE))}
SwitchedOff ==
    {(n :> Some(FALSE)) : n \in {"label_bars", "label_lines", "label_area", "spines", "grid"}}
OptionData == {MkData(3, 1, 2, 3, 1), MkData(3, 2, 0, 5, 1970), MkData(4, 2, 0, 5, 1970)}
OptionCalls ==
    {<<d, ("kind" :> Some(k)) @@ o>> :
        d \in OptionData, k \in GoodKinds, o \in {NoArgs} \cup RecognizedArgs \cup SwitchedOff}
    \cup {<<d, o>> : d \in OptionData, o \in {NoArgs} \cup RecognizedArgs}
OptionRuns ==
    LET runs == {[data |-> c[1], kw |-> c[2], r |-> RunCreateFigure(c[1], c[2])] :
                    c \in OptionCalls}
    IN  {c \in runs : c = c}
\* create_figure with each documented option
NextOptions == \E c \in OptionRuns : CreateFigure(c.data, c.kw, c.r)
SpecOptions == Init /\ [][NextOptions]_vars

\* data whose index values make long labels, many labels, and labels of years
LongLabelData ==
    {BaseData, MkData(4, 1, 0, 5, 1970), MkData(13, 1, 2, 3, 1990),
     MkData(8, 1, 2, 3, 10000000), MkData(2, 1, 2, 3, 1000000000)}
LongLabelArgs ==
    {NoArgs, ("xyear" :> Some(TRUE)),
     ("xticklabels" :> Some(<<"a very long label", "b", "c", "d">>)),
     ("xticklabels" :> Some(<<"2001", "a very long label", "c", "d">>))}
LongLabelFigureCalls ==
    {<<d, ("kind" :> Some(k)) @@ o>> :
        d \in LongLabelData, k \in {"vertical_bar", "stacked_vbar", "horizontal_bar"},
        o \in {NoArgs, ("title" :> Some(Title1))}}
LongLabelHelperCalls ==
    {<<"axis_labels_vbar", d, k>> : d \in LongLabelData, k \in LongLabelArgs}
LongLabelFigureRuns ==
    LET runs == {[data |-> c[1], kw |-> c[2], r |-> RunCreateFigure(c[1], c[2])] :
                    c \in LongLabelFigureCalls}
    IN  {c \in runs : c = c}
LongLabelHelperRuns ==
    LET runs == {[helper |-> c[1], data |-> c[2], kw |-> c[3],
                  r |-> RunTickHelper(c[1], c[2], c[3])] : c \in LongLabelHelperCalls}
    IN  {c \in runs : c = c}
\* bar charts and axis_labels_vbar over data with long labels
NextLabels ==
    \/ \E c \in LongLabelFigureRuns : CreateFigure(c.data, c.kw, c.r)
    \/ \E c \in LongLabelHelperRuns : TickHelper(c.helper, c.data, c.kw, c.r)
SpecLabels == Init /\ [][NextLabels]_vars

\* data whose index is of dtype object: the strings "2001".."2003", which
\* pd.to_datetime parses, and the strings "3000".."3002", which it does not
DateTextData == [MkData(3, 1, 2, 3, 2001) EXCEPT !.itype = "O"]
FarTextData == [MkData(3, 1, 2, 3, 3000) EXCEPT !.itype = "O"]
InputKindArgs == {NoArgs, ("kind" :> Some("scatter")), ("kind" :> Some("horizontal_bar")),
                  ("kind" :> Some("pie")), ("color" :> Some(<<1>>))}
InputOutfiles == {Outfile(<<"tests", "test_output">>, "output", "png"),
                  Outfile(<<"a", "b", "c">>, "chart", "pdf")}
InputSaveCalls ==
    {<<f, d, k>> : f \in InputOutfiles, d \in {BaseData, DateTextData}, k \in InputKindArgs}
    \cup {<<f, FarTextData, ("kind" :> Some("pie"))>> : f \in InputOutfiles}
InputFigureCalls ==
    {<<d, k>> : d \in {BaseData, MkData(4, 2, 0, 5, 1970)}, k \in InputKindArgs}
InputSaveRuns ==
    LET runs == {[outfile |-> c[1], data |-> c[2], kw |-> c[3],
                  r |-> RunSaveFig(c[1], c[2], c[3])] : c \in InputSaveCalls}
    IN  {c \in runs : c = c}
InputPackageRuns ==
    LET runs == {[outfile |-> c[1], data |-> c[2], kw |-> c[3],
                  r |-> RunSaveFigPackage(c[1], c[2], c[3])] :
                    c \in {x \in InputSaveCalls : x[2] = BaseData}}
    IN  {c \in runs : c = c}
InputFigureRuns ==
    LET runs == {[data |-> c[1], kw |-> c[2], r |-> RunCreateFigure(c[1], c[2])] :
                    c \in InputFigureCalls}
    IN  {c \in runs : c = c}
InputImageRuns ==
    LET runs == {[data |-> c[1], kw |-> c[2], r |-> RunCreateImage(c[1], c[2])] :
                    c \in InputFigureCalls}
    IN  {c \in runs : c = c}
\* The three entry points, with the dataset the caller holds after each call.
NextInputs ==
    \/ \E c \in InputFigureRuns : CreateFigure(c.data, c.kw, c.r)
    \/ \E c \in InputImageRuns : CreateImage(c.data, c.kw, c.r)
    \/ \E c \in InputSaveRuns : SaveFig(c.outfile, c.data, c.kw, c.r)
    \/ \E c \in InputPackageRuns : SaveFigPackage(c.outfile, c.data, c.kw, c.r)
SpecInputs == Init /\ [][NextInputs]_vars

NextTicks ==
    \/ \E c \in TickFigureRuns : CreateFigure(c.data, c.kw, c.r)
    \/ \E c \in TickHelperRuns : TickHelper(c.helper, c.data, c.kw, c.r)
SpecTicks == Init /\ [][NextTicks]_vars

\* The command line, next to calls of save_fig with the same data.
NextMain ==
    \/ \E c \in MainRuns : Main(c.outfile, c.data, c.flags, c.r)
    \/ \E c \in SaveRuns : SaveFig(c.outfile, c.data, c.kw, c.r)
SpecMain == Init /\ [][NextMain]_vars

\* ------------------------------------------------------------------ the claims
\* the kind the last call asked for
AskedKind == Arg(ret.kw, "kind", Some("line"))[1]
\* the figure the last call returned
Returned == figs[ret.fig]
\* the options of the last call other than kind
Options == DOMAIN ret.kw \ {"kind"}

\* C1: create_figure with a kind outside the seven supported ones raises
\* NotImplementedError before any drawing: no routine runs, nothing is printed,
\* no figure is created (the figure count and the current figure stay as they
\* were) and none is returned.
C1_UnsupportedKind ==
    [][(ret'.call = "create_figure" /\ AskedKind' \notin
            {"line", "stacked_area", "scatter", "horizontal_bar", "vertical_bar",
             "stacked_vbar", "stacked_hbar"})
        => /\ ret'.err = "NotImplementedError"
           /\ ret'.routine = ""
           /\ ret'.out = <<>>
           /\ ret'.fig = 0
           /\ nfig' = nfig
           /\ gcf' = gcf]_vars
\* an unsupported kind was refused after an earlier call had made a figure
C1_Witness ==
    /\ ret.call = "create_figure"
    /\ AskedKind = "pie"
    /\ ret.err = "NotImplementedError"
    /\ ret.fig = 0
    /\ nfig = 1

\* the routine and the artist the documentation gives for a kind
ExpectedRoutine ==
    [k \in {"line", "stacked_area", "scatter", "horizontal_bar", "vertical_bar",
            "stacked_vbar", "stacked_hbar"} |->
        CASE k = "line" -> <<"draw_line_chart", "line">>
          [] k = "stacked_area" -> <<"draw_filled_line_chart", "area">>
          [] k = "scatter" -> <<"draw_scatter_plot", "scatter">>
          [] k = "horizontal_bar" -> <<"draw_horizontal_bar_chart", "barh">>
          [] k = "vertical_bar" -> <<"draw_vertical_bar_chart", "bar">>
          [] k = "stacked_vbar" -> <<"draw_vertical_stacked_bar", "bar">>
          [] k = "stacked_hbar" -> <<"draw_horizontal_stacked_bar", "barh">>]
\* C2: create_figure with one of the seven kinds (or no kind, which means
\* 'line'), valid data and no other option runs exactly that kind's routine,
\* raises nothing and returns a figure with exactly one coordinate system on
\* which that kind's artists are drawn.
C2_Dispatch ==
    (ret.call = "create_figure" /\ Options = {} /\ AskedKind \in DOMAIN ExpectedRoutine)
    => /\ ret.err = ""
       /\ ret.routine = ExpectedRoutine[AskedKind][1]
       /\ ret.fig \in DOMAIN figs
       /\ Returned.naxes = 1
       /\ Len(Returned.drawn) >= 1
       /\ \A k \in 1..Len(Returned.drawn) : Returned.drawn[k].art = ExpectedRoutine[AskedKind][2]
       /\ ("kind" \notin DOMAIN ret.kw => ret.routine = "draw_line_chart")
\* a scatter plot was asked for by name and made, and so was a chart with no kind
C2_Witness ==
    /\ ret.call = "create_figure"
    /\ Options = {}
    /\ ret.err = ""
    /\ \/ "kind" \in DOMAIN ret.kw /\ AskedKind = "scatter" /\ ret.routine = "draw_scatter_plot"
       \/ "kind" \notin DOMAIN ret.kw /\ ret.routine = "draw_line_chart"

\* what the claim compares of a figure: axis limits, tick labels (with the
\* positions they are drawn at) and title
View(fig) ==
    [xlim |-> fig.xlim, ylim |-> fig.ylim, xden |-> fig.xden, yden |-> fig.yden,
     xticks |-> GetTicks(fig.xlim, fig.xlocs), yticks |-> GetTicks(fig.ylim, fig.ylocs),
     xlabels |-> fig.xlabels, ylabels |-> fig.ylabels, hidden |-> fig.hidden,
     title |-> fig.title]
GaveFigure == ret.err = "" /\ ret.fig \in DOMAIN figs
\* the caller gave the option a value
Supplied(name) == name \in DOMAIN ret.kw /\ ret.kw[name] # None
SupportedKinds == {"line", "stacked_area", "scatter", "horizontal_bar", "vertical_bar",
                   "stacked_vbar", "stacked_hbar"}
IndexRange == <<SeqMin(ret.data[1].index), SeqMax(ret.data[1].index)>>

\* C4: whenever create_figure (any supported kind) or the limit helper gives
\* back a figure and the caller supplied xmin, xmax, ymin or ymax (0 and
\* negative values included), that limit of the figure is the supplied value.
C4_LimitsHonoured ==
    (ret.call \in {"create_figure", "min_max_line_area_formatter"} /\ GaveFigure
        /\ AskedKind \in SupportedKinds)
    => /\ Supplied("xmin") => Returned.xlim[1] = Returned.xden * ret.kw["xmin"][1]
       /\ Supplied("xmax") => Returned.xlim[2] = Returned.xden * ret.kw["xmax"][1]
       /\ Supplied("ymin") => Returned.ylim[1] = Returned.yden * ret.kw["ymin"][1]
       /\ Supplied("ymax") => Returned.ylim[2] = Returned.yden * ret.kw["ymax"][1]

\* the caller gave no bound of the x axis, of the y axis
NoXBound == DOMAIN ret.kw \cap {"xmin", "xmax", "xlim"} = {}
NoYBound == DOMAIN ret.kw \cap {"ymin", "ymax", "ylim"} = {}
\* what the limit helper does with the bounds it is given
HelperDefaults ==
    ret.call = "min_max_line_area_formatter"
    => /\ (NoXBound /\ IndexRange[1] < IndexRange[2]) => Returned.xlim = IndexRange
       /\ NoYBound => Returned.ylim[1] = 0
       /\ (Supplied("xmax") /\ ~Supplied("xmin")) => Returned.xlim[1] = IndexRange[1]
       /\ (Supplied("ymax") /\ ~Supplied("ymin")) => Returned.ylim[1] = 0
HyphenInRange(s, i) ==
    s[i] = "-" /\ i > 4 /\ IsYear(s, i - 4) /\ IsYear(s, i + 1)
\* the text as the claim renders it
ClaimedText(s) ==
    ReplaceNewline([i \in 1..Len(s) |-> IF HyphenInRange(s, i) THEN EnDash ELSE s[i]], 1)
\* C6: the title and the source note of a figure are the supplied text with every
\* hyphen between two groups of four digits turned into an en-dash and every
\* backslash-n marker into a line break, all else unchanged.
C6_TextRendered ==
    (ret.call = "create_figure" /\ GaveFigure)
    => /\ (Supplied("title") /\ ret.kw["title"][1] # <<>>)
          => Returned.title = ClaimedText(ret.kw["title"][1])
       /\ (Supplied("source") /\ ret.kw["source"][1] # <<>>)
          => Returned.footer = ClaimedText(ret.kw["source"][1])

\* the label drawn at the p-th y tick: labels that were set are drawn by position
YTicks == GetTicks(Returned.ylim, Returned.ylocs)
YLabelAt(p) ==
    IF Returned.ylabels # None /\ p <= Len(Returned.ylabels[1])
    THEN Returned.ylabels[1][p] ELSE ""
\* C7: on the value axis of a figure made with no tick positions or labels
\* given: if the largest tick is 1,000,000 or more, every label that is not
\* empty is the tick over 1,000 with thousands separators and a K; otherwise
\* every label is the tick with thousands separators and no decimals.
C7_TickLabels ==
    (ret.call = "create_figure" /\ GaveFigure
        /\ AskedKind \in {"line", "stacked_area", "scatter", "vertical_bar", "stacked_vbar"}
        /\ DOMAIN ret.kw \cap {"xticks", "yticks", "xticklabels", "yticklabels"} = {})
    => \A p \in 1..Len(YTicks) :
          IF SeqMax(YTicks) >= 1000000
          THEN YLabelAt(p) # "" =>
                  YLabelAt(p) = (IF YTicks[p] % 1000 = 0 THEN FmtThousands0(YTicks[p])
                                 ELSE FmtThousandsFloat(YTicks[p])) \o "K"
          ELSE YLabelAt(p) = FmtComma0(YTicks[p])

\* C8: a line chart of n index points has its x ticks exactly at the n index
\* values when n < 6, and no x tick positions set when n >= 6.
C8_ShortSeriesTicks ==
    (ret.call = "create_figure" /\ GaveFigure /\ AskedKind = "line")
    => LET index == ret.data[1].index
       IN  IF Len(index) < 6
           THEN /\ Returned.xlocs = Some(index)
                /\ GetTicks(Returned.xlim, Returned.xlocs) = index
           ELSE Returned.xlocs = None
\* a line chart of five points has its five ticks
C8_Witness ==
    /\ ret.call = "create_figure"
    /\ GaveFigure
    /\ AskedKind = "line"
    /\ Len(ret.data[1].index) = 5
    /\ Len(GetTicks(Returned.xlim, Returned.xlocs)) = 5

\* the option names of the documentation and of the drawers' and the formatter's
\* parameters
KnownOptions ==
    {"kind", "title", "source", "xlabel", "ylabel", "xlabel_off", "ylabel_off", "xmin",
     "xmax", "ymin", "ymax", "xlim", "ylim", "xticks", "xtick_loc", "yticks", "ytick_loc",
     "xticklabels", "yticklabels", "rot", "grid", "spines", "label_lines", "label_area",
     "label_bars", "color", "line_thickness", "label_thousands", "lw"}
\* C9 as stated: create_figure of a supported kind with an option whose name is
\* not a known one raises AttributeError and returns no figure.
C9_UnknownOptionFails ==
    (ret.call = "create_figure" /\ AskedKind \in SupportedKinds
        /\ ~(DOMAIN ret.kw \subseteq KnownOptions))
    => ret.err = "AttributeError" /\ ret.fig = 0
\* C9, amended: create_figure of a supported kind with an option that is not
\* None and whose name is neither a known one nor a property of the axes raises
\* AttributeError and returns no figure; an unknown name given as None is
\* dropped, and the figure is the one made without it.
C9_UnknownValueFails ==
    (ret.call = "create_figure" /\ AskedKind \in SupportedKinds)
    => /\ (\E n \in DOMAIN ret.kw \ KnownOptions : ret.kw[n] # None /\ n # "alpha")
          => ret.err = "AttributeError" /\ ret.fig = 0
       /\ (Options = {"fake_param"} /\ ret.kw["fake_param"] = None)
          => /\ GaveFigure
             /\ Returned = RunCreateFigure(ret.data[1], Rest(ret.kw, {"fake_param"})).fig[1]
\* a scatter plot with fake_param=True was refused after its figure was created
C9_Witness ==
    /\ ret.call = "create_figure"
    /\ AskedKind = "scatter"
    /\ Supplied("fake_param")
    /\ ret.err = "AttributeError"
    /\ ret.fig = 0
    /\ nfig = 2
    /\ gcf = 2

\* C10: create_image returns a buffer read from its start that holds the
\* encoding, in the format asked for (png when none is), of the figure
\* create_figure makes from the same data and options (a line chart when no kind
\* is given), and it leaves the file system as it was.
C10_ImageBuffer ==
    [][(ret'.call = "create_image")
       => /\ disk' = disk
          /\ ret'.err = ""
             => LET kw == ret'.kw
                    f == RunCreateFigure(ret'.data[1], Rest(kw, {"format"}))
                IN  /\ f.err = ""
                    /\ ret'.buf # None
                    /\ ret'.buf[1].pos = 0
                    /\ ret'.buf[1].bytes =
                          Some([format |-> IF "format" \in DOMAIN kw THEN kw["format"][1]
                                           ELSE "png",
                                bbox |-> "tight", picture |-> f.fig[1]])
                    /\ ("kind" \notin DOMAIN kw => ret'.routine = "draw_line_chart")]_vars
\* an svg of a scatter plot was returned while a file written earlier stayed
C10_Witness ==
    /\ ret.call = "create_image"
    /\ ret.err = ""
    /\ ret.buf # None
    /\ ret.buf[1].pos = 0
    /\ ret.buf[1].bytes[1].format = "svg"
    /\ ret.routine = "draw_scatter_plot"
    /\ DOMAIN disk.files # {}

\* the encoding the claim gives a call of save_fig: the format given, else the one
\* the suffix of outfile names
ClaimedEncoding ==
    IF Supplied("format") THEN ret.kw["format"][1] ELSE ret.outfile[1].suffix
\* C11: after a call of save_fig (of __main__ or of the package) that raised
\* nothing, the directory of outfile and every directory above it exist, the file
\* at outfile holds the encoding of the figure create_figure makes from the same
\* data and options, the value returned is the path of outfile, and the encoding
\* is the format given when one is given and else the one the suffix of outfile
\* names, so that the suffix names the encoding of the file.
C11_SavedFile ==
    (ret.call \in {"save_fig", "graphics.save_fig"} /\ ret.err = "")
    => LET f == ret.outfile[1]
       IN  /\ Ancestors(f.parent) \subseteq disk.dirs
           /\ f \in DOMAIN disk.files
           /\ disk.files[f].picture =
                 RunCreateFigure(ret.data[1], Rest(ret.kw, {"format"})).fig[1]
           /\ ret.path = Some(f)
           /\ disk.files[f].format = ClaimedEncoding
           /\ f.suffix = disk.files[f].format

\* the option is given and true
Switched(name) == TruthyBool(Arg(ret.kw, name, Some(FALSE)))
\* the axis titles the data gives: the name of the index along the index axis and
\* the name of the first column along the value axis
HorizontalKinds == {"horizontal_bar", "stacked_hbar"}
DefaultXLabel ==
    IF AskedKind \in HorizontalKinds THEN Some(ret.data[1].names[1]) ELSE ret.data[1].iname
DefaultYLabel ==
    IF AskedKind \in HorizontalKinds THEN ret.data[1].iname ELSE Some(ret.data[1].names[1])
\* C12: a figure of any supported kind has no x-axis title when xlabel_off is set
\* and otherwise the xlabel supplied, or with none supplied the title the data
\* gives; the same for the y axis with ylabel_off and ylabel.
C12_AxisTitles ==
    (ret.call = "create_figure" /\ GaveFigure /\ AskedKind \in SupportedKinds)
    => /\ Returned.xlabel = (IF Switched("xlabel_off") THEN None
                             ELSE IF Supplied("xlabel") THEN ret.kw["xlabel"]
                             ELSE DefaultXLabel)
       /\ Returned.ylabel = (IF Switched("ylabel_off") THEN None
                             ELSE IF Supplied("ylabel") THEN ret.kw["ylabel"]
                             ELSE DefaultYLabel)

\* C13: a run of the command line with an output path and flags of the
\* documentation ends without an error and with the output file written when
\* --kind is a supported kind (or is not given), and with an error when it is not.
C13_CommandLine ==
    (ret.call = "main" /\ ret.outfile # None)
    => IF AskedKind \in SupportedKinds
       THEN ret.err = "" /\ ret.outfile[1] \in DOMAIN disk.files
       ELSE ret.err # ""

\* the last call was one that sets ticks and tick labels
TickCall == ret.call \in {"create_figure"} \cup TickHelpers /\ AskedKind \in SupportedKinds
\* the tick labels the caller supplied for an axis (create_figure takes the labels
\* of the x axis as xticks as well)
XLabelsGiven ==
    IF ret.call = "create_figure" /\ Supplied("xticks") THEN ret.kw["xticks"]
    ELSE Arg(ret.kw, "xticklabels", None)
YLabelsGiven == Arg(ret.kw, "yticklabels", None)
\* the ticks placed on the axes of the figure returned
XTicksPlaced == GetTicks(Returned.xlim, Returned.xlocs)
YTicksPlaced == GetTicks(Returned.ylim, Returned.ylocs)
\* an advisory about the number of labels of the axis was printed
CountAdvisory(axis) ==
    \E i \in 1..Len(ret.out) :
        ret.out[i] \in {"too few " \o axis \o "-axis labels", "too many " \o axis \o "-axis labels"}
\* C14: when the caller supplies tick labels for an axis, the call raises nothing
\* and returns the figure with the supplied labels on that axis, and it prints
\* an advisory exactly when the number of labels differs from the number of ticks
\* placed on that axis.
C14_LabelCountAdvisory ==
    TickCall
    => /\ XLabelsGiven # None
          => /\ GaveFigure
             /\ Returned.xlabels = XLabelsGiven
             /\ CountAdvisory("x") <=> Len(XLabelsGiven[1]) # Len(XTicksPlaced)
       /\ YLabelsGiven # None
          => /\ GaveFigure
             /\ Returned.ylabels = YLabelsGiven
             /\ CountAdvisory("y") <=> Len(YLabelsGiven[1]) # Len(YTicksPlaced)

\* the tick locations the caller supplied for an axis (create_figure takes the
\* locations of the y axis as yticks)
XLocsGiven == Arg(ret.kw, "xtick_loc", None)
YLocsGiven ==
    IF ret.call = "create_figure" /\ Supplied("yticks") THEN ret.kw["yticks"]
    ELSE Arg(ret.kw, "ytick_loc", None)
\* C15: on each axis of a figure returned, tick locations the caller supplied are
\* the tick positions of the axis, and tick labels the caller supplied, with
\* locations or without, are the tick labels of the axis as supplied.
C15_TicksVerbatim ==
    (TickCall /\ GaveFigure)
    => /\ XLocsGiven # None => XTicksPlaced = XLocsGiven[1]
       /\ YLocsGiven # None => YTicksPlaced = YLocsGiven[1]
       /\ XLabelsGiven # None => Returned.xlabels = XLabelsGiven
       /\ YLabelsGiven # None => Returned.ylabels = YLabelsGiven

\* the values the ticks of an axis stand for: the index values along the index axis
\* of a bar chart, where a tick sits on every bar, and the tick positions elsewhere
XTickValues == IF ret.call = "axis_labels_vbar" THEN ret.data[1].index ELSE XTicksPlaced
YTickValues == IF ret.call = "axis_labels_hbar" THEN ret.data[1].index ELSE YTicksPlaced
\* the labels of a year axis: the whole number, unseparated and undivided
YearLabels(ticks) == [p \in 1..Len(ticks) |-> FmtInt(ticks[p])]
\* C16: with an axis flagged as a year axis (xyear / yyear) and no labels supplied
\* for it, every tick label of that axis is the integer tick value, with no
\* thousands separator, no division by 1,000 and no K, whatever the magnitude.
C16_YearLabels ==
    TickCall
    => /\ (Switched("xyear") /\ XLabelsGiven = None)
          => GaveFigure /\ Returned.xlabels = Some(YearLabels(XTickValues))
       /\ (Switched("yyear") /\ YLabelsGiven = None)
          => GaveFigure /\ Returned.ylabels = Some(YearLabels(YTickValues))

\* the last call labelled a y axis of values: the y axis of a horizontal bar chart
\* carries the index
ValueAxisY ==
    /\ TickCall
    /\ GaveFigure
    /\ ret.call # "axis_labels_hbar"
    /\ ~(ret.call = "create_figure" /\ AskedKind \in HorizontalKinds)
\* C17: with no y tick labels supplied, the y tick at 0 has an empty label in the
\* figure returned, whether the largest tick is below 1,000,000 or not, and every
\* other y tick has a label that is not empty.
C17_ZeroTickHidden ==
    (ValueAxisY /\ YLabelsGiven = None)
    => \A p \in 1..Len(YTicks) : (YLabelAt(p) = "") <=> (YTicks[p] = 0)

\* a line chart or a chart of vertical bars was returned, and the caller gave no
\* lower y limit below zero
VerticalKinds == {"vertical_bar", "stacked_vbar"}
LowerLimitAsked ==
    IF Supplied("ymin") THEN ret.kw["ymin"]
    ELSE IF Supplied("ylim") THEN ret.kw["ylim"][1][1] ELSE None
NoNegativeYmin ==
    /\ ret.call \in {"create_figure", "min_max_line_area_formatter"}
    /\ GaveFigure
    /\ AskedKind \in {"line"} \cup VerticalKinds
    /\ (LowerLimitAsked = None \/ LowerLimitAsked[1] >= 0)
\* the lowest end of a bar of the chart
LowestBarEnd ==
    IF AskedKind = "stacked_vbar" THEN SetMin(StackEnds(ret.data[1]))
    ELSE SetMin(AllValues(ret.data[1]))
IndexKinds == {"line", "stacked_area", "scatter"}
ShortSeriesChart ==
    /\ ret.call = "create_figure"
    /\ GaveFigure
    /\ AskedKind \in IndexKinds
    /\ Len(ret.data[1].index) < 6
\* C19 (as stated): a line, stacked-area or scatter chart of fewer than 6 index
\* points is returned with its x ticks exactly at the index values.
C19_ShortSeriesEveryKind == ShortSeriesChart => XTicksPlaced = ret.data[1].index
\* C19 (amended): a line or stacked-area chart of fewer than 6 index points is
\* returned with its x ticks fixed at the index values, whatever was asked of the
\* formatting; a scatter chart is returned with no x tick positions fixed.
C19_ShortSeriesTicks ==
    ShortSeriesChart
    => IF AskedKind = "scatter" THEN Returned.xlocs = None
       ELSE Returned.xlocs = Some(ret.data[1].index) /\ XTicksPlaced = ret.data[1].index
\* a stacked-area chart of four points, given tick labels of its own, has its
\* four ticks at the index values
C19_Witness ==
    /\ ShortSeriesChart
    /\ AskedKind = "stacked_area"
    /\ Supplied("xticks")
    /\ Len(ret.data[1].index) = 4
    /\ XTicksPlaced = ret.data[1].index

\* the text of the value label of the j-th bar of the k-th series as the claim has
\* it, and the labels of all bars in the order they are drawn
BarKinds == {"vertical_bar", "horizontal_bar"}
ClaimedBarLabel(data, k, j) ==
    IF SeqMax(data.cols[k]) < 1 THEN FmtPct2(data.cols[k][j]) ELSE FmtComma0(data.cols[k][j])
ClaimedBarLabels(data) ==
    [t \in 1..(NCols(data) * NRows(data)) |->
       ClaimedBarLabel(data, ((t - 1) \div NRows(data)) + 1, ((t - 1) % NRows(data)) + 1)]
\* C20: in a vertical_bar and in a horizontal_bar chart every value label of a
\* series is a percentage when the largest value of that series is below 1 and a
\* whole number with thousands separators otherwise, and the value labels have
\* font size 18 - 3 * the number of columns.
C20_BarValueLabels ==
    (ret.call = "create_figure" /\ GaveFigure /\ AskedKind \in BarKinds)
    => /\ Returned.texts = ClaimedBarLabels(ret.data[1])
       /\ Returned.textsize = Some(18 - 3 * NCols(ret.data[1]))

\* the kind's annotation switch, and the text annotations of the figure returned
AnnotationSwitch ==
    CASE AskedKind = "line" -> "label_lines"
      [] AskedKind = "stacked_area" -> "label_area"
      [] OTHER -> "label_bars"
AnnotatedKinds == {"line", "stacked_area", "vertical_bar", "horizontal_bar"}
\* C21: a bar chart carries value labels only when label_bars is asked for, a line
\* chart end-of-line labels only with label_lines, and a stacked-area chart band
\* labels only with label_area; with the option absent or false the figure
\* returned holds no text annotation.
C21_AnnotationsOptIn ==
    (ret.call = "create_figure" /\ GaveFigure /\ AskedKind \in AnnotatedKinds)
    => (Returned.texts # <<>> => Switched(AnnotationSwitch))

\* a stacked bar chart was returned; the segment drawn d-th, and the segment of
\* column k
StackedKinds == {"stacked_vbar", "stacked_hbar"}
StackedChart == ret.call = "create_figure" /\ GaveFigure /\ AskedKind \in StackedKinds
SegmentOf(k) == CHOOSE s \in {Returned.drawn[d] : d \in 1..Len(Returned.drawn)} : s.col = k
\* each column has one segment, and the segment of column k starts, at every
\* index value, at the sum of the columns before it
SegmentsStacked ==
    LET data == ret.data[1]
        n == NCols(data)
    IN  /\ Len(Returned.drawn) = n
        /\ {Returned.drawn[d].col : d \in 1..n} = 1..n
        /\ \A k \in 1..n : \A j \in 1..NRows(data) :
              /\ SegmentOf(k).base[j] = SeqSum(SubSeq(Row(data, j), 1, k - 1))
              /\ k < n => SegmentOf(k).base[j] + data.cols[k][j] = SegmentOf(k + 1).base[j]
              /\ k = n => SegmentOf(k).base[j] + data.cols[k][j] = SeqSum(Row(data, j))
\* C22 (as stated): in a stacked_vbar and in a stacked_hbar chart the segment of
\* column k starts at the sum of the columns before it at every index value, and
\* the segments are drawn last column first.
C22_StackedReverse ==
    StackedChart
    => /\ SegmentsStacked
       /\ \A d \in 1..Len(Returned.drawn) :
             Returned.drawn[d].col = NCols(ret.data[1]) + 1 - d
\* C22 (amended): the segments start at the sums of the columns before them in both
\* kinds; stacked_vbar draws them last column first, stacked_hbar first column
\* first.
C22_StackedSegments ==
    StackedChart
    => /\ SegmentsStacked
       /\ \A d \in 1..Len(Returned.drawn) :
             Returned.drawn[d].col = (IF AskedKind = "stacked_vbar"
                                      THEN NCols(ret.data[1]) + 1 - d ELSE d)
\* a stacked_hbar chart of several columns, the first drawn first, whose second
\* segment starts away from 0
C22_Witness ==
    /\ StackedChart
    /\ AskedKind = "stacked_hbar"
    /\ NCols(ret.data[1]) > 1
    /\ Returned.drawn[1].col = 1
    /\ \E j \in 1..NRows(ret.data[1]) : SegmentOf(2).base[j] > 0

\* a chart of grouped bars was returned; the units of its category axis to one
\* index step, and the ticks of that axis
GroupedChart == ret.call = "create_figure" /\ GaveFigure /\ AskedKind \in BarKinds
CategoryDen == IF AskedKind = "vertical_bar" THEN Returned.xden ELSE Returned.yden
CategoryTicks == IF AskedKind = "vertical_bar" THEN Returned.xlocs[1] ELSE Returned.ylocs[1]
Distance(a, b) == IF a < b THEN b - a ELSE a - b
\* the bars of the chart are w = (2/3)/n thick, the bar of column i (from 0) of
\* the j-th index value (from 0) is at j + i * w, and no two bars overlap
BarsSideBySide ==
    LET n == NCols(ret.data[1])
        m == NRows(ret.data[1])
        bar == Returned.drawn
    IN  /\ Len(bar) = n
        /\ \A k \in 1..n :
              /\ 3 * n * bar[k].thick = 2 * CategoryDen
              /\ \A j \in 1..m :
                    bar[k].pos[j] = CategoryDen * (j - 1) + (k - 1) * bar[k].thick
        /\ \A k1, k2 \in 1..n : \A j1, j2 \in 1..m :
              <<k1, j1>> # <<k2, j2>>
              => 2 * Distance(bar[k1].pos[j1], bar[k2].pos[j2])
                    >= bar[k1].thick + bar[k2].thick
\* the tick of group j is at the centre of the group, j + w * (n/2 - 1/2)
TicksAtGroupCentres ==
    /\ Len(CategoryTicks) = NRows(ret.data[1])
    /\ \A j \in 1..NRows(ret.data[1]) :
          2 * CategoryTicks[j] = 2 * CategoryDen * (j - 1)
                                 + Returned.drawn[1].thick * (NCols(ret.data[1]) - 1)
\* C23 (as stated): in a vertical_bar and in a horizontal_bar chart of n columns
\* the bar of column i of the j-th index value is at j + i * w and w = (2/3)/n
\* thick, so the bars of one index value span 2/3 and no two bars overlap, and
\* the tick of group j is at the centre of the group.
C23_GroupTicksAlways == GroupedChart => BarsSideBySide /\ TicksAtGroupCentres
\* C23 (amended): the bars are so placed in every such chart; the ticks are at
\* the centres of the groups unless the caller gave a horizontal_bar chart
\* yticks, which are then the ticks of the axis of the groups.
C23_BarGeometry ==
    GroupedChart
    => /\ BarsSideBySide
       /\ IF AskedKind = "horizontal_bar" /\ Supplied("yticks")
          THEN CategoryTicks = ret.kw["yticks"][1]
          ELSE TicksAtGroupCentres
\* a vertical_bar chart of two columns has the bars of its second column beside
\* those of the first
C23_Witness ==
    /\ GroupedChart
    /\ AskedKind = "vertical_bar"
    /\ NCols(ret.data[1]) = 2
    /\ Returned.drawn[2].pos[1] = Returned.drawn[1].pos[1] + Returned.drawn[1].thick

\* twice the horizontal midpoint of the plotted range of a stacked-area chart, and
\* the rows of the data at that midpoint
TwiceMidpoint(data) == SeqMin(data.index) + SeqMax(data.index)
RowsAtMidpoint(data) == {j \in 1..NRows(data) : 2 * data.index[j] = TwiceMidpoint(data)}
AreaLabelsAsked ==
    /\ ret.call = "create_figure"
    /\ AskedKind = "stacked_area"
    /\ Switched("label_area")
    /\ DOMAIN ret.kw = {"kind", "label_area"}
\* C24: a stacked-area chart with label_area, of any data, has one label per
\* column, at the horizontal midpoint of the plotted range and, vertically, midway
\* between the sum of the columns before it and the sum through it at that
\* midpoint, also when the midpoint is not an index value.
C24_BandLabels ==
    AreaLabelsAsked
    => /\ GaveFigure
       /\ Returned.texts = ret.data[1].names
       /\ Len(Returned.bandat) = NCols(ret.data[1])
       /\ \A k \in 1..Len(Returned.bandat) :
             /\ Returned.bandat[k].x2 = TwiceMidpoint(ret.data[1])
             /\ \A j \in RowsAtMidpoint(ret.data[1]) :
                   Returned.bandat[k].y2 = SeqSum(SubSeq(Row(ret.data[1], j), 1, k - 1))
                                           + SeqSum(SubSeq(Row(ret.data[1], j), 1, k))

\* C25: in a figure of any supported kind the left and bottom spines are hidden
\* unless spines is switched on, no grid lines are drawn unless grid is switched
\* on, and the x tick labels are rotated only when a rotation angle is given.
C25_CosmeticDefaults ==
    (ret.call = "create_figure" /\ GaveFigure /\ AskedKind \in SupportedKinds)
    => /\ (Returned.left \/ Returned.bottom) => Switched("spines")
       /\ Returned.grid => Switched("grid")
       /\ Returned.rot # None => Supplied("rot")

\* index labels were placed on a chart of vertical bars; the labels, and the
\* number of times the advisory was printed
VbarLabelled ==
    \/ ret.call = "create_figure" /\ AskedKind \in VerticalKinds
    \/ ret.call = "axis_labels_vbar"
PlacedLabels == Returned.xlabels[1]
AdvisoryCount ==
    Cardinality({i \in 1..Len(ret.out) : ret.out[i] = "consider horizontal_bar"})
LabelsTooLong ==
    \/ \E j \in 1..Len(PlacedLabels) : Len(PlacedLabels[j]) > 9
    \/ SeqSum([j \in 1..Len(PlacedLabels) |-> Len(PlacedLabels[j])]) > 49
    \/ \E j \in 1..Len(PlacedLabels) : Len(PlacedLabels[j]) > 6 /\ Len(PlacedLabels) > 7
\* C26: on a chart of vertical bars the advisory that suggests horizontal_bar is
\* printed if and only if a label is longer than 9 characters, or the lengths of
\* all labels sum to more than 49, or a label is longer than 6 characters and
\* there are more than 7 labels; it is printed once, and nothing is raised.
C26_LongLabelAdvisory ==
    VbarLabelled
    => /\ GaveFigure
       /\ AdvisoryCount >= 1 <=> LabelsTooLong
       /\ AdvisoryCount <= 1

SaveCallNames == {"save_fig", "graphics.save_fig"}
\* C28 as stated: after a save_fig that failed no file is at its output path
C28_NoFileAfterFailure ==
    (ret.call \in SaveCallNames /\ ret.err # "")
    => ret.outfile[1] \notin DOMAIN disk.files
\* C28: when save_fig fails (unsupported kind, unrecognized option, unsupported
\* output format) the failure is raised to the caller by that call, the chart is
\* drawn at most once (no retry, no fallback rendering), and the call writes
\* nothing: the files are what they were, so no output file, complete or partial,
\* is at an output path that had none, and a file an earlier call wrote there is
\* left as it was.
C28_FailedSaveWritesNothing ==
    [][(ret'.call \in SaveCallNames /\ ret'.err # "")
       => /\ ret'.path = None
          /\ nfig' \in {nfig, nfig + 1}
          /\ disk'.files = disk.files
          /\ ret'.outfile[1] \notin DOMAIN disk.files
             => ret'.outfile[1] \notin DOMAIN disk'.files]_vars
\* a save_fig that failed on the output format after an earlier save had
\* succeeded elsewhere: its directory is there and its output path has no file
C28_Witness ==
    /\ ret.call = "save_fig"
    /\ ret.err = "ValueError"
    /\ ret.routine # ""
    /\ ret.outfile[1].suffix = "bmp"
    /\ ret.outfile[1].parent \in disk.dirs
    /\ ret.outfile[1] \notin DOMAIN disk.files
    /\ disk.files # <<>>

\* C29: create_figure, create_image and save_fig never modify their inputs: after
\* any call, successful or failed, the caller's dataset (its index, column names
\* and values) is equal to what it was before the call, and a call without a
\* color option draws what the same call draws on a fresh start.
EntryPoints == {"create_figure", "create_image", "save_fig", "graphics.save_fig"}
C29_InputsUnchanged ==
    ret.call \in EntryPoints
    => /\ ret.after = ret.data
       /\ (ret.call = "create_figure" /\ ret.err = "" /\ "color" \notin DOMAIN ret.kw)
          => figs[ret.fig] = RunCreateFigure(ret.data[1], ret.kw).fig[1]

\* the names of the recognized option set, and a call of create_figure for a
\* supported kind that supplies only such names, each with a valid value
RecognizedNames == {"kind"} \cup UNION {DOMAIN o : o \in RecognizedArgs}
RecognizedCall ==
    /\ ret.call = "create_figure"
    /\ AskedKind \in SupportedKinds
    /\ DOMAIN ret.kw \subseteq RecognizedNames
    /\ Rest(ret.kw, {"kind"}) \in {NoArgs} \cup RecognizedArgs
\* C30: every option name of the recognized option set is accepted by
\* create_figure for every supported kind: supplying any of them with a valid
\* value triggers neither the unrecognized-option failure (AttributeError) nor a
\* duplicate-argument failure (TypeError).
C30_RecognizedOptionsAccepted ==
    RecognizedCall => ret.err \notin {"AttributeError", "TypeError"}
====
